---- MODULE Spec2Model ----
(***************************************************************************)
(* PokerVPIPAnalyzer (src/poker_analysis.py): the ledger pass             *)
(* parse_buy_ins_and_stacks, the hand pass parse_hands, the aggregation   *)
(* calculate_stats and the report helpers, as run by run_analysis.        *)
(*                                                                         *)
(* A log entry is its text, a string of ASCII characters.  The regular    *)
(* expressions and substring tests of the source are computed on the      *)
(* characters of the whole text, the quoted names included.  The          *)
(* statistics hold Python floats, modelled bit for bit, and the report    *)
(* gives a value rounded to two places in hundredths.                     *)
(***************************************************************************)
EXTENDS Integers, Sequences, FiniteSets, TLC

\* Longest generated log (the scenario logs of Logs are longer).
MaxLen == 3

\* Settled(x) has x worked out where it stands, before what follows uses it:
\* a long chain of steps is worked out step by step.
Settled(x) == x = x

----------------------------------------------------------------------------
\* Texts.  A character is a text of length 1.

\* Character i of the text s; "" outside of the text.
At(s, i) == IF i >= 1 /\ i <= Len(s) THEN SubSeq(s, i, i) ELSE ""

\* The text lit stands at position i of the text s.
LitAt(s, i, lit) ==
    /\ i >= 1
    /\ i + Len(lit) - 1 <= Len(s)
    /\ SubSeq(s, i, i + Len(lit) - 1) = lit

\* `lit in s`
IsInfix(lit, s) == \E i \in 1..(Len(s) - Len(lit) + 1) : LitAt(s, i, lit)

\* str.lower() / re.IGNORECASE: every capital letter of the text is folded
\* to its small letter, every other character is kept.
\* The small letter of every capital letter a text can hold (U+0000..U+00FF).
LowerOfCapital ==
    LET Capitals == "ABCDEFGHIJKLMNOPQRSTUVWXYZÀÁÂÃÄÅÆÇÈÉÊËÌÍÎÏÐÑÒÓÔÕÖØÙÚÛÜÝÞ"
        Smalls   == "abcdefghijklmnopqrstuvwxyzàáâãäåæçèéêëìíîïðñòóôõöøùúûüýþ"
    IN  [c \in {SubSeq(Capitals, i, i) : i \in 1..Len(Capitals)} |->
            LET i == CHOOSE n \in 1..Len(Capitals) :
                         SubSeq(Capitals, n, n) = c
            IN  SubSeq(Smalls, i, i)]

\* One character in lower case.
LowerChar(c) == IF c \in DOMAIN LowerOfCapital THEN LowerOfCapital[c] ELSE c

\* The text in lower case, a half of it after the other.
RECURSIVE Lower(_)
Lower(s) ==
    IF Len(s) = 0 THEN s
    ELSE IF Len(s) = 1 THEN LowerChar(s)
    ELSE LET m == Len(s) \div 2
         IN  Lower(SubSeq(s, 1, m)) \o Lower(SubSeq(s, m + 1, Len(s)))

\* The characters [A-Z] matches under re.IGNORECASE.
Letters ==
    LET AToZ == "ABCDEFGHIJKLMNOPQRSTUVWXYZ"
    IN  UNION {{SubSeq(AToZ, i, i), LowerOfCapital[SubSeq(AToZ, i, i)]} :
                  i \in 1..Len(AToZ)}

\* The value of every character \d matches.
DigitValue ==
    LET DigitChars == "0123456789"
    IN  [c \in {SubSeq(DigitChars, i, i) : i \in 1..Len(DigitChars)} |->
            (CHOOSE n \in 1..Len(DigitChars) : SubSeq(DigitChars, n, n) = c) - 1]

Digits == DOMAIN DigitValue

\* The characters \s matches, of those a text can hold (U+0000..U+00FF):
\* the space, \t, \n, \r, \f, the vertical tab U+000B, the separators
\* U+001C..U+001F, the next line U+0085 and the no-break space U+00A0.
WhiteSpace ==
    {" ", "\t", "\n", "\r", "\f", "", "", "", "", "",
     "", " "}

\* The first position of lo..hi of s whose character ends a run of
\* characters of cs (inside) or of characters outside cs (~inside); hi + 1
\* when there is none.  The first half of the range is looked at first.
RECURSIVE RunStop(_, _, _, _, _)
RunStop(s, lo, hi, cs, inside) ==
    IF lo > hi THEN hi + 1
    ELSE IF lo = hi
    THEN IF (SubSeq(s, lo, lo) \in cs) = inside THEN hi + 1 ELSE lo
    ELSE LET m == (lo + hi) \div 2
             a == RunStop(s, lo, m, cs, inside)
         IN  IF a <= m THEN a ELSE RunStop(s, m + 1, hi, cs, inside)

\* The last position of the longest run of characters that starts at
\* position i of s and is made of characters of cs (inside) or of characters
\* outside cs (~inside); i - 1 when the run is empty.
RunEnd(s, i, cs, inside) ==
    IF i > Len(s) THEN i - 1 ELSE RunStop(s, i, Len(s), cs, inside) - 1

\* `'text' in entry`
Contains(e, text) == IsInfix(text, e)

\* re.search(pattern, entry, re.IGNORECASE) for a pattern that is a plain text
ContainsI(e, pattern) == IsInfix(Lower(pattern), Lower(e))

----------------------------------------------------------------------------
\* Regular expressions.  A pattern is the sequence of its elements: a plain
\* text or one of the classes below; group says that the element is a
\* group of the pattern.  Every element of these patterns is followed by a
\* character it cannot match itself (or by nothing), so the longest match
\* of an element is the only one the pattern can go on from.
Lit(s) == [k |-> "lit", s |-> s, group |-> FALSE]

\* ([^"]+)
NameGroup == [k |-> "name", s |-> "", group |-> TRUE]

\* (\d+(?:\.\d+)?)
NumberGroup == [k |-> "number", s |-> "", group |-> TRUE]

\* (\d+\.\d+) and \d+\.\d+
DecimalGroup == [k |-> "decimal", s |-> "", group |-> TRUE]

Decimal == [k |-> "decimal", s |-> "", group |-> FALSE]

\* (\d+)
DigitsGroup == [k |-> "digits", s |-> "", group |-> TRUE]

\* \s*
Spaces == [k |-> "spaces", s |-> "", group |-> FALSE]

\* [^,]*
NotComma == [k |-> "notcomma", s |-> "", group |-> FALSE]

\* [^(]+
NotParen == [k |-> "notparen", s |-> "", group |-> FALSE]

\* [A-Z] under re.IGNORECASE
Letter == [k |-> "letter", s |-> "", group |-> FALSE]

\* An element does not match.
NoMatch == 0 - 1

\* to, the end of a run that has to hold a character at least.
NonEmpty(i, to) == IF to >= i THEN to ELSE NoMatch

\* The end of \d+\.\d+ matched at position i of s.
DecimalEnd(s, i) ==
    LET a == RunEnd(s, i, Digits, TRUE)
    IN  IF a >= i /\ At(s, a + 1) = "." /\ At(s, a + 2) \in Digits
        THEN RunEnd(s, a + 2, Digits, TRUE)
        ELSE NoMatch

\* The end of \d+(?:\.\d+)? matched at position i of s.
NumberEnd(s, i) ==
    LET a == RunEnd(s, i, Digits, TRUE)
    IN  IF a < i THEN NoMatch
        ELSE IF At(s, a + 1) = "." /\ At(s, a + 2) \in Digits
        THEN RunEnd(s, a + 2, Digits, TRUE)
        ELSE a

\* The end of element m matched at position i of s, or NoMatch.
ElementEnd(s, i, m) ==
    CASE m.k = "lit"      -> IF LitAt(s, i, m.s) THEN i + Len(m.s) - 1
                             ELSE NoMatch
      [] m.k = "name"     -> NonEmpty(i, RunEnd(s, i, {"\""}, FALSE))
      [] m.k = "number"   -> NumberEnd(s, i)
      [] m.k = "decimal"  -> DecimalEnd(s, i)
      [] m.k = "digits"   -> NonEmpty(i, RunEnd(s, i, Digits, TRUE))
      [] m.k = "spaces"   -> RunEnd(s, i, WhiteSpace, TRUE)
      [] m.k = "notcomma" -> RunEnd(s, i, {","}, FALSE)
      [] m.k = "notparen" -> NonEmpty(i, RunEnd(s, i, {"("}, FALSE))
      [] m.k = "letter"   -> IF At(s, i) \in Letters THEN i ELSE NoMatch

\* No match object (None).
None == [ok |-> FALSE, start |-> 0, end |-> 0, groups |-> << >>]

\* The elements j, j + 1, ... of pat matched one after the other from
\* position i of s: the end of the match and the texts of its groups.
RECURSIVE MatchFrom(_, _, _, _)
MatchFrom(s, i, pat, j) ==
    IF j > Len(pat)
    THEN [ok |-> TRUE, start |-> i, end |-> i - 1, groups |-> << >>]
    ELSE LET Followed(to, rest) ==
                 IF ~rest.ok THEN None
                 ELSE [ok |-> TRUE, start |-> i, end |-> rest.end,
                       groups |-> (IF pat[j].group
                                   THEN << SubSeq(s, i, to) >>
                                   ELSE << >>) \o rest.groups]
             From(to) ==
                 IF to = NoMatch THEN None
                 ELSE Followed(to, MatchFrom(s, to + 1, pat, j + 1))
         IN  From(ElementEnd(s, i, pat[j]))

\* re.match(pat, s)
Match(s, pat) == MatchFrom(s, 1, pat, 1)

\* The leftmost match of pat in s that starts at a position of lo..hi.  The
\* first half of the range is looked at first.
RECURSIVE SearchIn(_, _, _, _)
SearchIn(s, pat, lo, hi) ==
    IF lo > hi THEN None
    ELSE IF lo = hi THEN MatchFrom(s, lo, pat, 1)
    ELSE LET m == (lo + hi) \div 2
             a == SearchIn(s, pat, lo, m)
         IN  IF a.ok THEN a ELSE SearchIn(s, pat, m + 1, hi)

\* re.search(pat, s)
Search(s, pat) == SearchIn(s, pat, 1, Len(s))

\* re.search(pat, s, re.IGNORECASE) for a pattern without groups, its plain
\* texts in lower case.
SearchI(s, pat) == Search(Lower(s), pat)

\* The groups of the matches of pat in s that start at a position of lo..hi,
\* left to right, a match starting where the one before it ended or after
\* it, and the position the search goes on from.
RECURSIVE FindAllIn(_, _, _, _)
FindAllIn(s, pat, lo, hi) ==
    IF lo > hi THEN [found |-> << >>, next |-> lo]
    ELSE IF lo = hi
    THEN LET m == MatchFrom(s, lo, pat, 1)
         IN  IF m.ok THEN [found |-> << m.groups >>, next |-> m.end + 1]
             ELSE [found |-> << >>, next |-> lo + 1]
    ELSE LET a == FindAllIn(s, pat, lo, (lo + hi) \div 2)
             b == FindAllIn(s, pat, a.next, hi)
         IN  [found |-> a.found \o b.found, next |-> b.next]

\* re.findall(pat, s)
FindAll(s, pat) == FindAllIn(s, pat, 1, Len(s)).found

----------------------------------------------------------------------------
\* Python floats (IEEE 754 binary64, round to nearest, ties to even).  A float
\* is a sign and a magnitude; the magnitude is a whole number of units of
\* 2^-120, written with NumLimbs digits of base LimbBase, the lowest first:
\* limbs 1..5 are the fraction, limbs 6 and 7 the whole part.  Every float
\* the analysis meets (a number of the text with up to 20 places after the
\* point, a sum or difference of such, a quotient of two counts below 2^19)
\* is a whole number of these units; the numbers of the text and the sums
\* stay below 2^31 hundredths (21474836.47), the range of the report.
LimbBase == 16777216

NumLimbs == 7

FracLimbs == 5

Mantissa == 53

ZeroMag == [i \in 1..NumLimbs |-> 0]

\* The magnitude of the whole number n >= 0.
MagOfInt(n) ==
    [i \in 1..NumLimbs |->
        IF i = FracLimbs + 1 THEN n % LimbBase
        ELSE IF i = FracLimbs + 2 THEN n \div LimbBase
        ELSE 0]

\* a + b from limb i on with a carry; a carry out of the last limb is lost.
RECURSIVE MagAddFrom(_, _, _, _)
MagAddFrom(a, b, i, carry) ==
    IF i > NumLimbs THEN << >>
    ELSE LET t == a[i] + b[i] + carry
         IN  << t % LimbBase >> \o MagAddFrom(a, b, i + 1, t \div LimbBase)

MagAdd(a, b) == MagAddFrom(a, b, 1, 0)

\* a - b for a >= b, from limb i on with a borrow.
RECURSIVE MagSubFrom(_, _, _, _)
MagSubFrom(a, b, i, borrow) ==
    IF i > NumLimbs THEN << >>
    ELSE LET t == a[i] - b[i] - borrow
         IN  IF t < 0
             THEN << t + LimbBase >> \o MagSubFrom(a, b, i + 1, 1)
             ELSE << t >> \o MagSubFrom(a, b, i + 1, 0)

MagSub(a, b) == MagSubFrom(a, b, 1, 0)

\* a < b, read from limb i down.
RECURSIVE MagLessFrom(_, _, _)
MagLessFrom(a, b, i) ==
    IF i = 0 THEN FALSE
    ELSE IF a[i] # b[i] THEN a[i] < b[i]
    ELSE MagLessFrom(a, b, i - 1)

MagLess(a, b) == MagLessFrom(a, b, NumLimbs)

\* a * k for a small k >= 0, from limb i on with a carry.
RECURSIVE MagTimesFrom(_, _, _, _)
MagTimesFrom(a, k, i, carry) ==
    IF i > NumLimbs THEN << >>
    ELSE LET t == a[i] * k + carry
         IN  << t % LimbBase >> \o MagTimesFrom(a, k, i + 1, t \div LimbBase)

MagTimes(a, k) == MagTimesFrom(a, k, 1, 0)

\* a divided by a small d > 0, half a limb at a time from limb i down with
\* the remainder r so far: the limbs of the quotient, the highest first, and
\* the last remainder after them.
HalfLimb == 4096

RECURSIVE MagDivFrom(_, _, _, _)
MagDivFrom(a, d, i, r) ==
    IF i = 0 THEN << r >>
    ELSE LET hi == r * HalfLimb + (a[i] \div HalfLimb)
             lo == (hi % d) * HalfLimb + (a[i] % HalfLimb)
         IN  << (hi \div d) * HalfLimb + (lo \div d) >>
                 \o MagDivFrom(a, d, i - 1, lo % d)

\* The quotient of a by d (rounded down) and whether the division left a
\* remainder.
MagDiv(a, d) ==
    LET out == MagDivFrom(a, d, NumLimbs, 0)
    IN  [mag    |-> [i \in 1..NumLimbs |-> out[NumLimbs + 1 - i]],
         sticky |-> out[NumLimbs + 1] # 0]

\* The number of bits of limb l.
LimbBits(l) == CHOOSE k \in 0..24 : l < 2 ^ k /\ (k = 0 \/ l >= 2 ^ (k - 1))

\* The number of bits of the magnitude (0 for zero).
BitLen(a) ==
    LET nz == {i \in 1..NumLimbs : a[i] # 0}
    IN  IF nz = {} THEN 0
        ELSE LET top == CHOOSE i \in nz : \A j \in nz : j <= i
             IN  (24 * (top - 1)) + LimbBits(a[top])

\* Bit k (from 0) of the magnitude.
BitOf(a, k) == (a[(k \div 24) + 1] \div (2 ^ (k % 24))) % 2

\* Some bit below bit k of the magnitude is set.
BitsBelow(a, k) ==
    \/ \E i \in 1..(k \div 24) : a[i] # 0
    \/ a[(k \div 24) + 1] % (2 ^ (k % 24)) # 0

\* The magnitude 2^k.
MagPowerOfTwo(k) ==
    [i \in 1..NumLimbs |-> IF i = (k \div 24) + 1 THEN 2 ^ (k % 24) ELSE 0]

\* The magnitude rounded to a float: to the nearest number of Mantissa bits,
\* a tie to the even one; sticky says that the exact value lies above a.
Round53(a, sticky) ==
    LET u == BitLen(a) - Mantissa
    IN  IF u <= 0 THEN a
        ELSE LET down == [i \in 1..NumLimbs |->
                            IF i < (u \div 24) + 1 THEN 0
                            ELSE IF i = (u \div 24) + 1
                            THEN a[i] - (a[i] % (2 ^ (u % 24)))
                            ELSE a[i]]
                 up   == /\ BitOf(a, u - 1) = 1
                         /\ \/ sticky
                            \/ BitsBelow(a, u - 1)
                            \/ BitOf(a, u) = 1
             IN  IF up THEN MagAdd(down, MagPowerOfTwo(u)) ELSE down

\* 0.0
FZero == [neg |-> FALSE, mag |-> ZeroMag]

\* float(n) of a whole number n >= 0.
FloatOfInt(n) == [neg |-> FALSE, mag |-> MagOfInt(n)]

\* x + y
FAdd(x, y) ==
    IF x.neg = y.neg
    THEN [neg |-> x.neg, mag |-> Round53(MagAdd(x.mag, y.mag), FALSE)]
    ELSE IF x.mag = y.mag THEN FZero
    ELSE IF MagLess(x.mag, y.mag)
    THEN [neg |-> y.neg, mag |-> Round53(MagSub(y.mag, x.mag), FALSE)]
    ELSE [neg |-> x.neg, mag |-> Round53(MagSub(x.mag, y.mag), FALSE)]

\* -x
FNeg(x) == IF x.mag = ZeroMag THEN x ELSE [x EXCEPT !.neg = ~@]

\* x - y
FSub(x, y) == FAdd(x, FNeg(y))

\* x < y
FLess(x, y) ==
    IF x.neg # y.neg THEN x.neg
    ELSE IF x.neg THEN MagLess(y.mag, x.mag)
    ELSE MagLess(x.mag, y.mag)

\* a / b of two counts, b > 0.
FDivInts(a, b) ==
    LET q == MagDiv(MagOfInt(a), b)
    IN  [neg |-> FALSE, mag |-> Round53(q.mag, q.sticky)]

\* x * k for a small whole k > 0.
FTimes(x, k) == [neg |-> x.neg, mag |-> Round53(MagTimes(x.mag, k), FALSE)]

\* round(x, 2), given in hundredths: the whole number nearest to the exact
\* value of 100 * x, a tie to the even one.
Round2(x) ==
    LET y     == MagTimes(x.mag, 100)
        whole == y[FracLimbs + 1] + (y[FracLimbs + 2] * LimbBase)
        half  == LimbBase \div 2
        above == \/ y[FracLimbs] > half
                 \/ y[FracLimbs] = half /\ \E i \in 1..(FracLimbs - 1) : y[i] # 0
        tie   == y[FracLimbs] = half /\ \A i \in 1..(FracLimbs - 1) : y[i] = 0
        h     == IF above \/ (tie /\ whole % 2 = 1) THEN whole + 1 ELSE whole
    IN  IF x.neg THEN 0 - h ELSE h

\* The whole number the first n characters of t write, all digits.
RECURSIVE MagOfDigits(_, _)
MagOfDigits(t, n) ==
    IF n = 0 THEN ZeroMag
    ELSE LET before == MagOfDigits(t, n - 1)
         IN  IF Settled(before)
             THEN MagAdd(MagTimes(before, 10), MagOfInt(DigitValue[At(t, n)]))
             ELSE before

\* The fraction the digits of t from position i on write after the point,
\* rounded down to a whole number of units, and whether that left a
\* remainder.
RECURSIVE MagOfFraction(_, _)
MagOfFraction(t, i) ==
    IF i > Len(t) THEN [mag |-> ZeroMag, sticky |-> FALSE]
    ELSE LET rest == MagOfFraction(t, i + 1)
             sum  == MagAdd(MagOfInt(DigitValue[At(t, i)]), rest.mag)
             q    == MagDiv(sum, 10)
         IN  IF Settled(rest) /\ Settled(sum)
             THEN [mag |-> q.mag, sticky |-> q.sticky \/ rest.sticky]
             ELSE rest

\* float(t) of a text t matched by \d+(?:\.\d+)? : the float nearest to the
\* number t writes.
FloatOfText(t) ==
    LET w   == RunEnd(t, 1, Digits, TRUE)
        f   == MagOfFraction(t, w + 2)
        sum == MagAdd(MagOfDigits(t, w), f.mag)
    IN  IF Settled(f) /\ Settled(sum)
        THEN [neg |-> FALSE, mag |-> Round53(sum, f.sticky)]
        ELSE FZero

\* int(t) of the first n characters of t, all digits.
RECURSIVE IntOfDigits(_, _)
IntOfDigits(t, n) ==
    IF n = 0 THEN 0 ELSE IntOfDigits(t, n - 1) * 10 + DigitValue[At(t, n)]

----------------------------------------------------------------------------
\* extract_player_name: re.match(r'^"([^"]+)"', entry); None is "".
extract_player_name(e) ==
    LET m == Match(e, << Lit("\""), NameGroup, Lit("\"") >>)
    IN  IF m.ok THEN m.groups[1] ELSE ""

\* Variant: a number without a decimal point is an amount too.
extract_amount_AnyNumber(e) ==
    LET amount_match == Search(e, << NumberGroup >>)
    IN  IF amount_match.ok THEN FloatOfText(amount_match.groups[1]) ELSE FZero

\* extract_amount: the first \d+\.\d+ of the text, else 0.0.
extract_amount(e) ==
    LET amount_match == Search(e, << DecimalGroup >>)
    IN  IF amount_match.ok THEN FloatOfText(amount_match.groups[1]) ELSE FZero

\* The patterns of is_vpip_action, their plain texts in lower case.
forced_patterns ==
    << << Lit("posts a big blind") >>,
       << Lit("posts a small blind") >>,
       << Lit("(big blind)") >>,
       << Lit("(small blind)") >>,
       << Lit("(ante)") >> >>

vpip_patterns ==
    << << Lit("calls "), Decimal >>,
       << Lit("bets "), Decimal >>,
       << Lit("raises to "), Decimal >>,
       << Lit("posts a bet of "), Decimal >> >>

\* Some forced pattern is found in the entry.
IsForced(e) ==
    \E n \in 1..Len(forced_patterns) : SearchI(e, forced_patterns[n]).ok

\* Some voluntary pattern is found in the entry.
IsVoluntary(e) ==
    \E n \in 1..Len(vpip_patterns) : SearchI(e, vpip_patterns[n]).ok

\* Variant: the voluntary patterns are looked at first.
is_vpip_action_VoluntaryFirst(e) ==
    IF IsVoluntary(e) THEN TRUE
    ELSE IF IsForced(e) THEN FALSE
    ELSE FALSE

is_vpip_action(e) ==
    IF IsForced(e) THEN FALSE
    ELSE IF IsVoluntary(e) THEN TRUE
    ELSE FALSE

----------------------------------------------------------------------------
\* The patterns of extract_hand_type in their order.  Each is `with (...)`;
\* a pattern is the sequence of the alternatives of its group in their order,
\* an alternative the sequence of its elements, the plain texts in lower
\* case.
HandPatterns == <<
    << << Lit("straight flush") >> >>,
    << << Lit("four of a kind") >>, << Lit("four of a kind "), NotParen >> >>,
    << << Lit("full house") >>, << Lit("full house "), NotParen >> >>,
    << << Lit("flush") >>, << Lit("flush "), NotParen >> >>,
    << << Lit("straight"), NotComma >> >>,
    << << Lit("three of a kind") >>,
       << Lit("three of a kind "), NotParen >> >>,
    << << Lit("two pair"), NotComma >>, << Lit("two pair "), NotParen >> >>,
    << << Lit("one pair") >>, << Lit("pair"), NotComma >>,
       << Lit("pair "), NotParen >> >>,
    << << Letter, Lit(" high") >> >>,
    << << Lit("hi hand") >>, << Lit("low hand") >> >> >>

\* The match of the pattern at position i of the text t (in lower case):
\* `with ` and after it the first alternative that matches there.
HandMatchAt(t, i, pat) ==
    LET FirstOf(alts) ==
            IF ~LitAt(t, i, "with ") \/ alts = {} THEN None
            ELSE [MatchFrom(t, i + 5,
                            pat[CHOOSE a \in alts : \A b \in alts : a <= b],
                            1) EXCEPT !.start = i]
    IN  FirstOf({a \in 1..Len(pat) : MatchFrom(t, i + 5, pat[a], 1).ok})

\* The leftmost match of the pattern in t that starts at a position of
\* lo..hi.  The first half of the range is looked at first.
RECURSIVE HandSearchIn(_, _, _, _)
HandSearchIn(t, pat, lo, hi) ==
    IF lo > hi THEN None
    ELSE IF lo = hi THEN HandMatchAt(t, lo, pat)
    ELSE LET m == (lo + hi) \div 2
             a == HandSearchIn(t, pat, lo, m)
         IN  IF a.ok THEN a ELSE HandSearchIn(t, pat, m + 1, hi)

\* re.search(pattern, entry, re.IGNORECASE)
HandSearch(e, pat) == HandSearchIn(Lower(e), pat, 1, Len(e))

\* match.group(1).lower()
Group1Lower(e, pat) ==
    LET Group1(m) == Lower(SubSeq(e, m.start + 5, m.end))
    IN  Group1(HandSearch(e, pat))

\* Variant: `<rank> High` and `hi hand`/`low hand` keep a label of their own.
NormalizeHandType_OwnLabels(hand_type) ==
    IF IsInfix("straight flush", hand_type) THEN "Straight Flush"
    ELSE IF IsInfix("four of a kind", hand_type) THEN "Four of a Kind"
    ELSE IF IsInfix("full house", hand_type) THEN "Full House"
    ELSE IF IsInfix("flush", hand_type) /\ ~IsInfix("straight", hand_type)
    THEN "Flush"
    ELSE IF IsInfix("straight", hand_type) THEN "Straight"
    ELSE IF IsInfix("three of a kind", hand_type) THEN "Three of a Kind"
    ELSE IF IsInfix("two pair", hand_type) THEN "Two Pair"
    ELSE IF IsInfix("pair", hand_type) \/ IsInfix("one pair", hand_type)
    THEN "One Pair"
    ELSE IF IsInfix("high", hand_type) THEN "A High"
    ELSE "hi hand"

\* The normalisation chain of extract_hand_type.
NormalizeHandType(hand_type) ==
    IF IsInfix("straight flush", hand_type) THEN "Straight Flush"
    ELSE IF IsInfix("four of a kind", hand_type) THEN "Four of a Kind"
    ELSE IF IsInfix("full house", hand_type) THEN "Full House"
    ELSE IF IsInfix("flush", hand_type) /\ ~IsInfix("straight", hand_type)
    THEN "Flush"
    ELSE IF IsInfix("straight", hand_type) THEN "Straight"
    ELSE IF IsInfix("three of a kind", hand_type) THEN "Three of a Kind"
    ELSE IF IsInfix("two pair", hand_type) THEN "Two Pair"
    ELSE IF IsInfix("pair", hand_type) \/ IsInfix("one pair", hand_type)
    THEN "One Pair"
    ELSE IF IsInfix("high", hand_type) THEN "High Card"
    ELSE "Other"

\* Variant: the matching pattern of the lowest priority gives the text.
extract_hand_type_LastPattern(e) ==
    LET TypeOf(hits) ==
            IF hits = {} THEN "Didn't Show"
            ELSE NormalizeHandType(
                     Group1Lower(e, HandPatterns[CHOOSE n \in hits :
                                                    \A m \in hits : n >= m]))
    IN  TypeOf({n \in 1..Len(HandPatterns) :
                   HandSearch(e, HandPatterns[n]).ok})

extract_hand_type(e) ==
    LET TypeOf(hits) ==
            IF hits = {} THEN "Didn't Show"
            ELSE NormalizeHandType(
                     Group1Lower(e, HandPatterns[CHOOSE n \in hits :
                                                    \A m \in hits : n <= m]))
    IN  TypeOf({n \in 1..Len(HandPatterns) :
                   HandSearch(e, HandPatterns[n]).ok})

----------------------------------------------------------------------------
\* The regular expressions of the two passes.
\* approved the player "([^"]+)" participation with a stack of (\d+(?:\.\d+)?)
BuyInPattern ==
    << Lit("approved the player \""), NameGroup,
       Lit("\" participation with a stack of "), NumberGroup >>

\* updated the player "([^"]+)" stack from (\d+(?:\.\d+)?) to (\d+(?:\.\d+)?)
StackUpdatePattern ==
    << Lit("updated the player \""), NameGroup, Lit("\" stack from "),
       NumberGroup, Lit(" to "), NumberGroup >>

\* reseting to (\d+(?:\.\d+)?) chips
StackResetPattern == << Lit("reseting to "), NumberGroup, Lit(" chips") >>

\* "([^"]+)" quits the game with a stack of (\d+(?:\.\d+)?)
CashOutPattern ==
    << Lit("\""), NameGroup, Lit("\" quits the game with a stack of "),
       NumberGroup >>

\* "([^"]+)"\s*\((\d+(?:\.\d+)?)\)
StackPattern ==
    << Lit("\""), NameGroup, Lit("\""), Spaces, Lit("("), NumberGroup,
       Lit(")") >>

\* starting hand #(\d+)
HandStartPattern == << Lit("starting hand #"), DigitsGroup >>

\* re.search(r'starting hand #(\d+)', entry)
IsHandStart(e) == Search(e, HandStartPattern).ok

\* int(hand_start_match.group(1))
HandNumber(e) ==
    LET hand_start_match == Search(e, HandStartPattern)
    IN  IntOfDigits(hand_start_match.groups[1], Len(hand_start_match.groups[1]))

IsSnapshot(e) == Contains(e, "Player stacks:")

IsHandEnd(e) == Contains(e, "ending hand")

IsCollection(e) == Contains(e, "collected") /\ Contains(e, "from pot")

\* re.findall(r'"([^"]+)"', entry), as a set.
QuotedNames(e) ==
    LET player_matches == FindAll(e, << Lit("\""), NameGroup, Lit("\"") >>)
    IN  {player_matches[i][1] : i \in 1..Len(player_matches)}

----------------------------------------------------------------------------
\* The record player_stats gives a player on first access.
Phases == {"preflop", "flop", "turn", "river"}

DefaultStats ==
    [hands_dealt |-> 0, vpip_hands |-> 0, total_put_in_pot |-> FZero,
     total_winnings |-> FZero, wins |-> 0, buy_ins |-> FZero,
     final_stack |-> FZero, cash_outs |-> FZero, admin_adjustments |-> FZero,
     hand_types_won |-> <<>>,
     betting_phase_amounts |-> [ph \in Phases |-> FZero]]

\* player_stats[p] read without creating the key.
Stat(ps, p) == IF p \in DOMAIN ps THEN ps[p] ELSE DefaultStats

\* player_stats[p] = rec (the key is created when missing).
SetStat(ps, p, rec) ==
    [q \in (DOMAIN ps) \cup {p} |-> IF q = p THEN rec ELSE ps[q]]

----------------------------------------------------------------------------
\* Variant: a stack of a snapshot line is added to final_stack.
RECURSIVE SetFinalStacks_Adds(_, _, _)
SetFinalStacks_Adds(ps, stack_matches, n) ==
    IF n > Len(stack_matches) THEN ps
    ELSE LET player == stack_matches[n][1]
             stack  == stack_matches[n][2]
         IN  SetFinalStacks_Adds(
                 SetStat(ps, player,
                         [Stat(ps, player) EXCEPT
                             !.final_stack = FAdd(@, FloatOfText(stack))]),
                 stack_matches, n + 1)

\* parse_buy_ins_and_stacks: the loop over stack_matches, from pair n on.
RECURSIVE SetFinalStacks(_, _, _)
SetFinalStacks(ps, stack_matches, n) ==
    IF n > Len(stack_matches) THEN ps
    ELSE LET player == stack_matches[n][1]
             stack  == stack_matches[n][2]
         IN  SetFinalStacks(
                 SetStat(ps, player,
                         [Stat(ps, player) EXCEPT
                             !.final_stack = FloatOfText(stack)]),
                 stack_matches, n + 1)

\* Variant of the loop body: a cash-out empties the player's final_stack.
LedgerEntry_CashOutClearsStack(ps, e) ==
    LET buy_in_match       == Search(e, BuyInPattern)
        stack_update_match == Search(e, StackUpdatePattern)
        stack_reset_match  == Search(e, StackResetPattern)
        cash_out_match     == Search(e, CashOutPattern)
    IN  IF buy_in_match.ok
        THEN LET player == buy_in_match.groups[1]
                 amount == FloatOfText(buy_in_match.groups[2])
             IN  SetStat(ps, player,
                         [Stat(ps, player) EXCEPT !.buy_ins = FAdd(@, amount)])
        ELSE IF stack_update_match.ok
        THEN LET player      == stack_update_match.groups[1]
                 from_amount == FloatOfText(stack_update_match.groups[2])
                 to_amount   == FloatOfText(stack_update_match.groups[3])
             IN  IF FLess(from_amount, to_amount)
                 THEN SetStat(ps, player,
                              [Stat(ps, player) EXCEPT
                                  !.admin_adjustments =
                                      FAdd(@, FSub(to_amount, from_amount))])
                 ELSE ps
        ELSE IF stack_reset_match.ok
        THEN ps
        ELSE IF cash_out_match.ok
        THEN LET player == cash_out_match.groups[1]
                 amount == FloatOfText(cash_out_match.groups[2])
             IN  SetStat(ps, player,
                         [Stat(ps, player) EXCEPT
                             !.cash_outs = FAdd(@, amount),
                             !.final_stack = FZero])
        ELSE IF IsSnapshot(e)
        THEN SetFinalStacks(ps, FindAll(e, StackPattern), 1)
        ELSE ps

\* Variant of the loop body: a stack update adds to - from whatever its sign.
LedgerEntry_SignedAdjustment(ps, e) ==
    LET buy_in_match       == Search(e, BuyInPattern)
        stack_update_match == Search(e, StackUpdatePattern)
        stack_reset_match  == Search(e, StackResetPattern)
        cash_out_match     == Search(e, CashOutPattern)
    IN  IF buy_in_match.ok
        THEN LET player == buy_in_match.groups[1]
                 amount == FloatOfText(buy_in_match.groups[2])
             IN  SetStat(ps, player,
                         [Stat(ps, player) EXCEPT !.buy_ins = FAdd(@, amount)])
        ELSE IF stack_update_match.ok
        THEN LET player      == stack_update_match.groups[1]
                 from_amount == FloatOfText(stack_update_match.groups[2])
                 to_amount   == FloatOfText(stack_update_match.groups[3])
             IN  SetStat(ps, player,
                         [Stat(ps, player) EXCEPT
                             !.admin_adjustments =
                                 FAdd(@, FSub(to_amount, from_amount))])
        ELSE IF stack_reset_match.ok
        THEN ps
        ELSE IF cash_out_match.ok
        THEN LET player == cash_out_match.groups[1]
                 amount == FloatOfText(cash_out_match.groups[2])
             IN  SetStat(ps, player,
                         [Stat(ps, player) EXCEPT
                             !.cash_outs = FAdd(@, amount)])
        ELSE IF IsSnapshot(e)
        THEN SetFinalStacks(ps, FindAll(e, StackPattern), 1)
        ELSE ps

\* parse_buy_ins_and_stacks: the body of the loop for one entry.
LedgerEntry(ps, e) ==
    LET buy_in_match       == Search(e, BuyInPattern)
        stack_update_match == Search(e, StackUpdatePattern)
        stack_reset_match  == Search(e, StackResetPattern)
        cash_out_match     == Search(e, CashOutPattern)
    IN  IF buy_in_match.ok
        THEN LET player == buy_in_match.groups[1]
                 amount == FloatOfText(buy_in_match.groups[2])
             IN  SetStat(ps, player,
                         [Stat(ps, player) EXCEPT !.buy_ins = FAdd(@, amount)])
        ELSE IF stack_update_match.ok
        THEN LET player      == stack_update_match.groups[1]
                 from_amount == FloatOfText(stack_update_match.groups[2])
                 to_amount   == FloatOfText(stack_update_match.groups[3])
             IN  IF FLess(from_amount, to_amount)
                 THEN SetStat(ps, player,
                              [Stat(ps, player) EXCEPT
                                  !.admin_adjustments =
                                      FAdd(@, FSub(to_amount, from_amount))])
                 ELSE ps
        ELSE IF stack_reset_match.ok
        THEN ps
        ELSE IF cash_out_match.ok
        THEN LET player == cash_out_match.groups[1]
                 amount == FloatOfText(cash_out_match.groups[2])
             IN  SetStat(ps, player,
                         [Stat(ps, player) EXCEPT
                             !.cash_outs = FAdd(@, amount)])
        ELSE IF IsSnapshot(e)
        THEN SetFinalStacks(ps, FindAll(e, StackPattern), 1)
        ELSE ps

----------------------------------------------------------------------------
\* parse_hands.  current_hand is <<>> for None and <<hand>> for a hand.
NewHand(n) ==
    [hand_number |-> n, actions |-> <<>>, players_dealt |-> {},
     winners |-> <<>>, phases |-> [ph \in Phases |-> <<>>]]

\* The state of the loop before its first entry.
HandsStart ==
    [current_hand |-> <<>>, current_hand_players |-> {},
     current_phase |-> "preflop", hands |-> <<>>]

\* Variant: a voluntary action is VPIP-eligible in every phase.
ActionInfo_VpipAnyPhase(e, phase) ==
    [player |-> extract_player_name(e), action |-> e,
     amount |-> extract_amount(e),
     is_vpip |-> is_vpip_action(e),
     phase |-> phase]

ActionInfo(e, phase) ==
    [player |-> extract_player_name(e), action |-> e,
     amount |-> extract_amount(e),
     is_vpip |-> is_vpip_action(e) /\ phase = "preflop",
     phase |-> phase]

WinnerInfo(e) ==
    [player |-> extract_player_name(e), amount |-> extract_amount(e),
     hand_type |-> extract_hand_type(e)]

\* Variant: a snapshot line replaces the names gathered so far.
QuotedNamesInto_Replaces(players, e) == QuotedNames(e)

\* current_hand_players.update(player_matches)
QuotedNamesInto(players, e) == players \cup QuotedNames(e)

\* The action part of the loop body: the entry is recorded in the open hand.
RecordAction(st, e) ==
    LET h == st.current_hand[1]
        With(action_info) ==
            [h EXCEPT !.actions = Append(@, action_info),
                      !.phases[st.current_phase] = Append(@, action_info),
                      !.winners = IF IsCollection(e)
                                  THEN Append(@, WinnerInfo(e))
                                  ELSE @]
    IN  [st EXCEPT !.current_hand = << With(ActionInfo(e, st.current_phase)) >>]

\* The hand-end part of the loop body.
EndHand(st) ==
    [current_hand |-> <<>>, current_hand_players |-> {},
     current_phase |-> "preflop",
     hands |-> IF st.current_hand # <<>>
               THEN Append(st.hands,
                           [st.current_hand[1] EXCEPT
                               !.players_dealt = st.current_hand_players])
               ELSE st.hands]

\* Variant of the loop body: a hand start saves the hand that is still open.
HandsEntry_SavesOpenHand(st, e) ==
    IF IsHandStart(e)
    THEN [EndHand(st) EXCEPT !.current_hand = <<NewHand(HandNumber(e))>>]
    ELSE IF st.current_hand # <<>> /\ Contains(e, "Flop:")
    THEN [st EXCEPT !.current_phase = "flop"]
    ELSE IF st.current_hand # <<>> /\ Contains(e, "Turn:")
    THEN [st EXCEPT !.current_phase = "turn"]
    ELSE IF st.current_hand # <<>> /\ Contains(e, "River:")
    THEN [st EXCEPT !.current_phase = "river"]
    ELSE IF st.current_hand # <<>> /\ IsSnapshot(e)
    THEN [st EXCEPT !.current_hand_players = @ \cup QuotedNames(e)]
    ELSE LET Ended(st1) == IF IsHandEnd(e) THEN EndHand(st1) ELSE st1
         IN  Ended(IF extract_player_name(e) # "" /\ st.current_hand # <<>>
                   THEN RecordAction(st, e)
                   ELSE st)

\* Variant of the loop body: a hand start keeps the phase reached before it.
HandsEntry_KeepsPhase(st, e) ==
    IF IsHandStart(e)
    THEN [st EXCEPT !.current_hand = <<NewHand(HandNumber(e))>>,
                    !.current_hand_players = {}]
    ELSE IF st.current_hand # <<>> /\ Contains(e, "Flop:")
    THEN [st EXCEPT !.current_phase = "flop"]
    ELSE IF st.current_hand # <<>> /\ Contains(e, "Turn:")
    THEN [st EXCEPT !.current_phase = "turn"]
    ELSE IF st.current_hand # <<>> /\ Contains(e, "River:")
    THEN [st EXCEPT !.current_phase = "river"]
    ELSE IF st.current_hand # <<>> /\ IsSnapshot(e)
    THEN [st EXCEPT !.current_hand_players = @ \cup QuotedNames(e)]
    ELSE LET Ended(st1) ==
                 IF IsHandEnd(e)
                 THEN [EndHand(st1) EXCEPT !.current_phase = st.current_phase]
                 ELSE st1
         IN  Ended(IF extract_player_name(e) # "" /\ st.current_hand # <<>>
                   THEN RecordAction(st, e)
                   ELSE st)

\* Variant of the loop body: an entry with an actor read with no hand open
\* opens a hand numbered 0 and is recorded in it.
HandsEntry_RecordsOrphan(st, e) ==
    IF IsHandStart(e)
    THEN [st EXCEPT !.current_hand = <<NewHand(HandNumber(e))>>,
                    !.current_hand_players = {},
                    !.current_phase = "preflop"]
    ELSE IF st.current_hand # <<>> /\ Contains(e, "Flop:")
    THEN [st EXCEPT !.current_phase = "flop"]
    ELSE IF st.current_hand # <<>> /\ Contains(e, "Turn:")
    THEN [st EXCEPT !.current_phase = "turn"]
    ELSE IF st.current_hand # <<>> /\ Contains(e, "River:")
    THEN [st EXCEPT !.current_phase = "river"]
    ELSE IF st.current_hand # <<>> /\ IsSnapshot(e)
    THEN [st EXCEPT !.current_hand_players = @ \cup QuotedNames(e)]
    ELSE LET st0 == IF st.current_hand = <<>>
                    THEN [st EXCEPT !.current_hand = <<NewHand(0)>>]
                    ELSE st
             Ended(st1) == IF IsHandEnd(e) THEN EndHand(st1) ELSE st1
         IN  Ended(IF extract_player_name(e) # ""
                   THEN RecordAction(st0, e)
                   ELSE st)

\* parse_hands: the body of the loop for one entry.
HandsEntry(st, e) ==
    IF IsHandStart(e)
    THEN [st EXCEPT !.current_hand = <<NewHand(HandNumber(e))>>,
                    !.current_hand_players = {},
                    !.current_phase = "preflop"]
    ELSE IF st.current_hand # <<>> /\ Contains(e, "Flop:")
    THEN [st EXCEPT !.current_phase = "flop"]
    ELSE IF st.current_hand # <<>> /\ Contains(e, "Turn:")
    THEN [st EXCEPT !.current_phase = "turn"]
    ELSE IF st.current_hand # <<>> /\ Contains(e, "River:")
    THEN [st EXCEPT !.current_phase = "river"]
    ELSE IF st.current_hand # <<>> /\ IsSnapshot(e)
    THEN [st EXCEPT !.current_hand_players = QuotedNamesInto(@, e)]
    ELSE LET Ended(st1) == IF IsHandEnd(e) THEN EndHand(st1) ELSE st1
         IN  Ended(IF extract_player_name(e) # "" /\ st.current_hand # <<>>
                   THEN RecordAction(st, e)
                   ELSE st)

\* Variant: the hand still open after the loop is forgotten.
FlushLastHand_Forgets(st) == st

\* parse_hands: "Don't forget the last hand", after the loop.
FlushLastHand(st) ==
    IF st.current_hand # <<>>
    THEN [st EXCEPT !.hands =
             Append(@, [st.current_hand[1] EXCEPT
                           !.players_dealt = st.current_hand_players])]
    ELSE st

----------------------------------------------------------------------------
\* calculate_stats.
\* for player in hand['players_dealt']: hands_dealt += 1
RECURSIVE CountDealt(_, _)
CountDealt(ps, dealt) ==
    IF dealt = {} THEN ps
    ELSE LET p == CHOOSE x \in dealt : TRUE
         IN  CountDealt(
                 SetStat(ps, p, [Stat(ps, p) EXCEPT !.hands_dealt = @ + 1]),
                 dealt \ {p})

\* Variant: the amount of a pot collection is money put in the pot too.
RECURSIVE TrackAmounts_CountsCollections(_, _, _)
TrackAmounts_CountsCollections(ps, actions, n) ==
    IF n > Len(actions) THEN ps
    ELSE LET a == actions[n]
         IN  IF FLess(FZero, a.amount)
             THEN TrackAmounts_CountsCollections(
                      SetStat(ps, a.player,
                              [Stat(ps, a.player) EXCEPT
                                  !.total_put_in_pot = FAdd(@, a.amount),
                                  !.betting_phase_amounts[a.phase] =
                                      FAdd(@, a.amount)]),
                      actions, n + 1)
             ELSE TrackAmounts_CountsCollections(ps, actions, n + 1)

\* The money part of the loop over hand['actions'], from action n on.
RECURSIVE TrackAmounts(_, _, _)
TrackAmounts(ps, actions, n) ==
    IF n > Len(actions) THEN ps
    ELSE LET a == actions[n]
         IN  IF FLess(FZero, a.amount) /\ ~Contains(a.action, "collected")
             THEN TrackAmounts(
                      SetStat(ps, a.player,
                              [Stat(ps, a.player) EXCEPT
                                  !.total_put_in_pot = FAdd(@, a.amount),
                                  !.betting_phase_amounts[a.phase] =
                                      FAdd(@, a.amount)]),
                      actions, n + 1)
             ELSE TrackAmounts(ps, actions, n + 1)

\* vpip_players_this_hand after the loop over hand['actions'].
VpipPlayers(hand) ==
    {hand.actions[n].player :
        n \in {m \in 1..Len(hand.actions) : hand.actions[m].is_vpip}}

\* for player in vpip_players_this_hand: vpip_hands += 1
RECURSIVE CountVpip(_, _)
CountVpip(ps, vp) ==
    IF vp = {} THEN ps
    ELSE LET p == CHOOSE x \in vp : TRUE
         IN  CountVpip(
                 SetStat(ps, p, [Stat(ps, p) EXCEPT !.vpip_hands = @ + 1]),
                 vp \ {p})

\* Variant: a label already in the mapping keeps its count.
BumpHandType_CountsLabelOnce(items, label) ==
    IF \E i \in 1..Len(items) : items[i].label = label
    THEN items
    ELSE Append(items, [label |-> label, count |-> 1])

\* hand_types_won[hand_type] += 1 on the insertion-ordered mapping, kept as
\* the sequence of its (label, count) items.
BumpHandType(items, label) ==
    IF \E i \in 1..Len(items) : items[i].label = label
    THEN [i \in 1..Len(items) |->
             IF items[i].label = label
             THEN [items[i] EXCEPT !.count = @ + 1]
             ELSE items[i]]
    ELSE Append(items, [label |-> label, count |-> 1])

\* The loop over hand['winners'], from winner n on.
RECURSIVE TrackWinners(_, _, _)
TrackWinners(ps, winners, n) ==
    IF n > Len(winners) THEN ps
    ELSE LET w == winners[n]
         IN  TrackWinners(
                 SetStat(ps, w.player,
                         [Stat(ps, w.player) EXCEPT
                             !.total_winnings = FAdd(@, w.amount),
                             !.wins = @ + 1,
                             !.hand_types_won = BumpHandType(@, w.hand_type)]),
                 winners, n + 1)

\* Variant: vpip_hands is raised at every VPIP action of the hand.
RECURSIVE CountVpipActions(_, _, _)
CountVpipActions(ps, actions, n) ==
    IF n > Len(actions) THEN ps
    ELSE IF actions[n].is_vpip
         THEN CountVpipActions(
                  SetStat(ps, actions[n].player,
                          [Stat(ps, actions[n].player) EXCEPT !.vpip_hands = @ + 1]),
                  actions, n + 1)
         ELSE CountVpipActions(ps, actions, n + 1)

CalcHand_CountsEveryAction(ps, hand) ==
    TrackWinners(
        CountVpipActions(
            TrackAmounts(CountDealt(ps, hand.players_dealt), hand.actions, 1),
            hand.actions, 1),
        hand.winners, 1)

\* calculate_stats: the body of the loop for one hand.
CalcHand(ps, hand) ==
    TrackWinners(
        CountVpip(
            TrackAmounts(CountDealt(ps, hand.players_dealt), hand.actions, 1),
            VpipPlayers(hand)),
        hand.winners, 1)

----------------------------------------------------------------------------
\* The entries the logs are made of.
Names == {"A", "B"}

\* A name as an entry writes it, between double quotes.
Q(name) == "\"" \o name \o "\""

EStart == "starting hand #1"

EEnd == "ending hand #1"

ESnapAB == "Player stacks: \"A\" (100) | \"B\" (100)"

ESnapA == "Player stacks: \"A\" (150.50)"

EFlop == "Flop:"

ETurn == "Turn:"

ERiver == "River:"

ESmallBlind(p, t) == Q(p) \o " posts a small blind " \o t

EBigBlind(p, t) == Q(p) \o " posts a big blind " \o t

ECalls(p, t) == Q(p) \o " calls " \o t

EBets(p, t) == Q(p) \o " bets " \o t

\* A voluntary post marked as the big blind: forced and voluntary at once.
EPostsBet(p, t) == Q(p) \o " posts a bet of " \o t \o " (big blind)"

ECollected(p, t) == Q(p) \o " collected " \o t \o " from pot with Two Pair"

EQuits(p, t) == Q(p) \o " quits the game with a stack of " \o t

Catalog ==
    { EStart, EEnd, ESnapAB, ESnapA, EFlop,
      EBigBlind("B", "2.00"), EPostsBet("B", "2.00"),
      ECalls("A", "4.00"), EBets("A", "5.00"),
      ECollected("B", "9.00"), EQuits("A", "50.00") }

\* The end-to-end scenario of the specification, amounts as written there.
ScenarioWhole ==
    << EStart, ESnapAB, ESmallBlind("A", "1"), EBigBlind("B", "2"),
       ECalls("A", "2"), EFlop, EBets("A", "5"),
       ECollected("B", "9"), EEnd >>

\* The same scenario with every amount of an action written with decimals.
ScenarioDecimal ==
    << EStart, ESnapAB, ESmallBlind("A", "1.00"),
       EBigBlind("B", "2.00"), ECalls("A", "2.00"), EFlop,
       EBets("A", "5.00"), ECollected("B", "9.00"), EEnd >>

\* Amounts whose float sums are not exact.  0.10 + 0.20 is the float
\* 0.30000000000000004, above the float 0.30: A's flop amount is the larger
\* one though both are 0.30 to the cent.
FloatTieFlop ==
    << EStart, ESnapAB, ECalls("A", "0.30"), EFlop,
       EBets("A", "0.10"), EBets("A", "0.20"), EEnd >>

\* The same with the turn against the flop.
FloatTieTurn ==
    << EStart, ESnapAB, ECalls("A", "0.10"), EFlop,
       EBets("A", "0.30"), ETurn, EBets("A", "0.10"),
       EBets("A", "0.20"), EEnd >>

\* B's total is (0.10 + 0.20) + 0.30 = 0.6000000000000001, B's amounts per
\* phase are 0.10 and 0.20 + 0.30 = 0.5; the hand is not closed by an end
\* entry.
FloatBuckets ==
    << EStart, EBigBlind("B", "0.10"), EFlop, EBets("B", "0.20"),
       EBets("B", "0.30"), ECollected("B", "0.90") >>

\* A snapshot line with other white space than the space between a name
\* and its stack: the vertical tab U+000B after "A", the separator U+001F
\* and the no-break space U+00A0 after "B".
ESnapSpaced == "Player stacks: \"A\"(75.25) | \"B\" (25)"

\* A hand whose snapshot line is written so, after a snapshot line of the
\* usual kind.
SpacedHand == << ESnapAB, EStart, ESnapSpaced, ECalls("A", "4.00"), EEnd >>

\* An entry that holds `collected` and not `from pot`.
ECollectedOnly(p, t) == Q(p) \o " collected " \o t

\* A hand with such an entry.
CollectedOnlyHand ==
    << EStart, ECalls("A", "4.00"), ECollectedOnly("A", "5.00"), EEnd >>

\* The logs in the order of their sequence numbers.
Logs ==
    UNION {[1..n -> Catalog] : n \in 0..MaxLen}
        \cup {ScenarioWhole, ScenarioDecimal}
        \cup {FloatTieFlop, FloatTieTurn, FloatBuckets}
        \cup {SpacedHand, CollectedOnlyHand}

\* The entries of the ledger and the logs made of them.
MaxLedgerLen == 3

EBuyIn(p, t) ==
    "The admin approved the player " \o Q(p)
        \o " participation with a stack of " \o t

EUpdate(p, x, y) ==
    "The admin updated the player " \o Q(p) \o " stack from " \o x
        \o " to " \o y

EReset(p, t) ==
    "WARNING: the admin queued the stack change for the player " \o Q(p)
        \o " reseting to " \o t \o " chips in the next hand"

ESnapA150 == "Player stacks: \"A\" (150)"

LedgerCatalog ==
    { EStart, ESnapA150, ESnapAB,
      EBuyIn("A", "100"), EBuyIn("B", "50.50"),
      EUpdate("A", "100", "150"),
      EUpdate("A", "150", "100.00"),
      EUpdate("B", "50.50", "50.50"),
      EReset("A", "100"), EQuits("A", "50.00") }

\* A session of A with every kind of ledger entry.
LedgerScenario ==
    << EBuyIn("A", "100"), EStart, ESnapA150,
       EUpdate("A", "100", "150"),
       EUpdate("A", "150", "100.00"),
       ESnapA, EQuits("A", "50.00") >>

\* A session of A with amounts whose float sums are not exact: buy-ins of
\* 0.10 and 0.20 (the float 0.30000000000000004), an increase from 0.10 to
\* 0.30 (the float 0.19999999999999998) and a last stack of 0.30.
FloatLedger ==
    << EBuyIn("A", "0.10"), EBuyIn("A", "0.20"),
       EUpdate("A", "0.10", "0.30"),
       "Player stacks: \"A\" (0.30)" >>

\* A session of A whose last snapshot line has other white space than the
\* space between the names and the stacks.
SpacedLedger ==
    << EBuyIn("A", "100"), ESnapA150, ESnapSpaced, EQuits("A", "50.00") >>

LedgerLogs ==
    UNION {[1..n -> LedgerCatalog] : n \in 0..MaxLedgerLen}
        \cup {LedgerScenario, FloatLedger, SpacedLedger}

\* The hand descriptions of the pot collections: `with` and the name of a
\* hand, as the log writes it or in lower case, a rank after a comma or
\* not; "nothing" names no hand.
MaxPhrases == 2

HandWords ==
    << "Straight Flush", "Four of a Kind", "Full House", "Flush", "Straight",
       "Three of a Kind", "Two Pair", "One Pair", "Pair", "A High", "K High",
       "hi hand", "low hand", "nothing" >>

PhraseOf(i, lower, comma) ==
    " with " \o (IF lower THEN Lower(HandWords[i]) ELSE HandWords[i])
        \o (IF comma THEN ", K" ELSE "")

\* The phrases f[n], f[n + 1], ... one after the other.
RECURSIVE PhrasesFrom(_, _, _, _)
PhrasesFrom(f, n, lower, comma) ==
    IF n > Len(f) THEN ""
    ELSE PhraseOf(f[n], lower, comma) \o PhrasesFrom(f, n + 1, lower, comma)

ECollectedWith(p, t, phrases) ==
    Q(p) \o " collected " \o t \o " from pot" \o phrases

TypeEntries ==
    { ECollectedWith("B", "9.00", PhrasesFrom(f, 1, lower, comma)) :
        f \in UNION {[1..n -> 1..Len(HandWords)] : n \in 0..MaxPhrases},
        lower \in BOOLEAN, comma \in BOOLEAN }

\* A hand with one pot collection.
TypeLogs == { << EStart, e >> : e \in TypeEntries }

\* Hands with several pot collections: B wins with Two Pair, a Flush or a
\* Pair, A with a Flush; A calls.
MaxWins == 4

WinCatalog ==
    { EStart, ECalls("A", "4.00"), ECollected("B", "9.00"),
      ECollectedWith("B", "9.00", PhraseOf(4, FALSE, FALSE)),
      ECollectedWith("B", "9.00", PhraseOf(9, FALSE, TRUE)),
      ECollectedWith("A", "9.00", PhraseOf(4, FALSE, FALSE)) }

WinLogs ==
    { << EStart >> \o s : s \in UNION {[1..n -> WinCatalog] : n \in 0..MaxWins} }

\* Hands that are finalized, dropped or never opened, with pot collections
\* of A and B, a call, and a collection line that starts with no name.
MaxRecordLen == 4

ECollectedNoActor(p, t) == "pot: " \o Q(p) \o " collected " \o t \o " from pot"

RecordCatalog ==
    { EStart, EEnd, ECalls("A", "4.00"), ECollected("B", "9.00"),
      ECollectedWith("B", "9.00", PhraseOf(4, FALSE, FALSE)),
      ECollectedWith("A", "3.00", ""),
      ECollectedNoActor("A", "9.00") }

RecordLogs == UNION {[1..n -> RecordCatalog] : n \in 0..MaxRecordLen}

\* Hands with phase markers: the four voluntary actions, a big blind, the
\* three markers, starts and ends.
MaxPhaseLen == 3

ERaises(p, t) == Q(p) \o " raises to " \o t

EPostsBetOf(p, t) == Q(p) \o " posts a bet of " \o t

PhaseMarkers == { EFlop, ETurn, ERiver }

PhaseCatalog ==
    { EStart, EEnd, ECalls("A", "4.00"), EBets("A", "5.00"),
      ERaises("B", "8.00"), EPostsBetOf("B", "3.00"),
      EBigBlind("B", "2.00") } \cup PhaseMarkers

\* A hand that reaches a phase, has an action and ends, and a second hand
\* with an action.
TwoHandLogs ==
    { << EStart, m, a, EEnd, EStart, b >> :
        m \in PhaseMarkers,
        a \in { ECalls("A", "4.00"), ERaises("B", "8.00") },
        b \in { ECalls("A", "4.00"), EBets("A", "5.00") } }

PhaseLogs ==
    { << EStart >> \o s :
        s \in UNION {[1..n -> PhaseCatalog] : n \in 0..MaxPhaseLen} }
        \cup TwoHandLogs

\* The rows of the CSV file for a log: entry i has order i; the file holds
\* them in this order or, as the exported files do, in reverse.
RowsOf(log, reversed) ==
    [i \in 1..Len(log) |->
        LET n == IF reversed THEN Len(log) + 1 - i ELSE i
        IN  [order |-> n, entry |-> log[n]]]

\* Variant: the rows are read in the order of the file.
SortByOrder_FileOrder(rows) == rows

\* df.sort_values('order')
RECURSIVE SortByOrder(_)
SortByOrder(rows) ==
    IF rows = <<>> THEN <<>>
    ELSE LET m == CHOOSE i \in 1..Len(rows) :
                      \A j \in 1..Len(rows) : rows[i].order <= rows[j].order
         IN  <<rows[m]>> \o SortByOrder(
                 SubSeq(rows, 1, m - 1) \o SubSeq(rows, m + 1, Len(rows)))

----------------------------------------------------------------------------
VARIABLES
    df,                    \* the rows as loaded
    pc,                    \* the method run_analysis is in
    idx,                   \* the position of the running loop
    player_stats,
    hands,
    current_hand,
    current_hand_players,
    current_phase

vars ==
    << df, pc, idx, player_stats, hands, current_hand, current_hand_players,
       current_phase >>

\* The rows in the order both passes read them.
Sorted == SortByOrder(df)

\* The locals of parse_hands as one record, and back.
HandsState ==
    [current_hand |-> current_hand,
     current_hand_players |-> current_hand_players,
     current_phase |-> current_phase, hands |-> hands]

\* __init__ and load_data.
Init ==
    /\ \E log \in Logs : \E reversed \in BOOLEAN : df = RowsOf(log, reversed)
    /\ pc = "parse_buy_ins_and_stacks"
    /\ idx = 1
    /\ player_stats = << >>
    /\ hands = HandsStart.hands
    /\ current_hand = HandsStart.current_hand
    /\ current_hand_players = HandsStart.current_hand_players
    /\ current_phase = HandsStart.current_phase

\* parse_buy_ins_and_stacks: one turn of the loop.
ParseLedgerRow ==
    /\ pc = "parse_buy_ins_and_stacks"
    /\ idx <= Len(df)
    /\ player_stats' = LedgerEntry(player_stats, Sorted[idx].entry)
    /\ idx' = idx + 1
    /\ UNCHANGED << df, pc, hands, current_hand, current_hand_players,
                    current_phase >>

\* parse_buy_ins_and_stacks returns; parse_hands starts.
ParseLedgerReturn ==
    /\ pc = "parse_buy_ins_and_stacks"
    /\ idx > Len(df)
    /\ pc' = "parse_hands"
    /\ idx' = 1
    /\ UNCHANGED << df, player_stats, hands, current_hand,
                    current_hand_players, current_phase >>

\* parse_hands: one turn of the loop.
ParseHandsRow ==
    /\ pc = "parse_hands"
    /\ idx <= Len(df)
    /\ LET Becomes(st) ==
               /\ hands' = st.hands
               /\ current_hand' = st.current_hand
               /\ current_hand_players' = st.current_hand_players
               /\ current_phase' = st.current_phase
       IN  Becomes(HandsEntry(HandsState, Sorted[idx].entry))
    /\ idx' = idx + 1
    /\ UNCHANGED << df, pc, player_stats >>

\* parse_hands: the last hand is flushed; calculate_stats starts.
ParseHandsReturn ==
    /\ pc = "parse_hands"
    /\ idx > Len(df)
    /\ hands' = FlushLastHand(HandsState).hands
    /\ pc' = "calculate_stats"
    /\ idx' = 1
    /\ UNCHANGED << df, player_stats, current_hand, current_hand_players,
                    current_phase >>

\* calculate_stats: one turn of the loop over the hands.
CalcStatsHand ==
    /\ pc = "calculate_stats"
    /\ idx <= Len(hands)
    /\ player_stats' = CalcHand(player_stats, hands[idx])
    /\ idx' = idx + 1
    /\ UNCHANGED << df, pc, hands, current_hand, current_hand_players,
                    current_phase >>

\* calculate_stats returns.
CalcStatsReturn ==
    /\ pc = "calculate_stats"
    /\ idx > Len(hands)
    /\ pc' = "done"
    /\ UNCHANGED << df, idx, player_stats, hands, current_hand,
                    current_hand_players, current_phase >>

Next ==
    \/ ParseLedgerRow
    \/ ParseLedgerReturn
    \/ ParseHandsRow
    \/ ParseHandsReturn
    \/ CalcStatsHand
    \/ CalcStatsReturn

Spec == Init /\ [][Next]_vars

\* __init__ and load_data for a log of ledger entries.
LedgerInit ==
    /\ \E log \in LedgerLogs : \E reversed \in BOOLEAN :
          df = RowsOf(log, reversed)
    /\ pc = "parse_buy_ins_and_stacks"
    /\ idx = 1
    /\ player_stats = << >>
    /\ hands = HandsStart.hands
    /\ current_hand = HandsStart.current_hand
    /\ current_hand_players = HandsStart.current_hand_players
    /\ current_phase = HandsStart.current_phase

LedgerSpec == LedgerInit /\ [][Next]_vars

\* __init__ and load_data for a log with a pot collection.
TypeInit ==
    /\ \E log \in TypeLogs : \E reversed \in BOOLEAN :
          df = RowsOf(log, reversed)
    /\ pc = "parse_buy_ins_and_stacks"
    /\ idx = 1
    /\ player_stats = << >>
    /\ hands = HandsStart.hands
    /\ current_hand = HandsStart.current_hand
    /\ current_hand_players = HandsStart.current_hand_players
    /\ current_phase = HandsStart.current_phase

TypeSpec == TypeInit /\ [][Next]_vars

\* __init__ and load_data for a log of pot collections.
WinInit ==
    /\ \E log \in WinLogs : \E reversed \in BOOLEAN :
          df = RowsOf(log, reversed)
    /\ pc = "parse_buy_ins_and_stacks"
    /\ idx = 1
    /\ player_stats = << >>
    /\ hands = HandsStart.hands
    /\ current_hand = HandsStart.current_hand
    /\ current_hand_players = HandsStart.current_hand_players
    /\ current_phase = HandsStart.current_phase

WinSpec == WinInit /\ [][Next]_vars

\* __init__ and load_data for a log of hands with phase markers.
PhaseInit ==
    /\ \E log \in PhaseLogs : \E reversed \in BOOLEAN :
          df = RowsOf(log, reversed)
    /\ pc = "parse_buy_ins_and_stacks"
    /\ idx = 1
    /\ player_stats = << >>
    /\ hands = HandsStart.hands
    /\ current_hand = HandsStart.current_hand
    /\ current_hand_players = HandsStart.current_hand_players
    /\ current_phase = HandsStart.current_phase

PhaseSpec == PhaseInit /\ [][Next]_vars

\* __init__ and load_data for a log of finalized, dropped and unopened hands.
RecordInit ==
    /\ \E log \in RecordLogs : \E reversed \in BOOLEAN :
          df = RowsOf(log, reversed)
    /\ pc = "parse_buy_ins_and_stacks"
    /\ idx = 1
    /\ player_stats = << >>
    /\ hands = HandsStart.hands
    /\ current_hand = HandsStart.current_hand
    /\ current_hand_players = HandsStart.current_hand_players
    /\ current_phase = HandsStart.current_phase

RecordSpec == RecordInit /\ [][Next]_vars

----------------------------------------------------------------------------
\* generate_report and its helpers.  A mapping is the sequence of its items
\* [label, count] in insertion order.

\* Variant: x is put before the items of the same count.
InsertDesc_BeforeEqual(items, x) ==
    LET below == {i \in 1..Len(items) : items[i].count <= x.count}
        at    == IF below = {} THEN Len(items) + 1
                 ELSE CHOOSE i \in below : \A j \in below : i <= j
    IN  SubSeq(items, 1, at - 1) \o <<x>> \o SubSeq(items, at, Len(items))

\* items with x put after every item whose count is not below x's.
InsertDesc(items, x) ==
    LET below == {i \in 1..Len(items) : items[i].count < x.count}
        at    == IF below = {} THEN Len(items) + 1
                 ELSE CHOOSE i \in below : \A j \in below : i <= j
    IN  SubSeq(items, 1, at - 1) \o <<x>> \o SubSeq(items, at, Len(items))

\* sorted(items, key=lambda x: x[1], reverse=True): stable, descending.
RECURSIVE SortedDesc(_)
SortedDesc(items) ==
    IF items = << >> THEN << >>
    ELSE InsertDesc(SortedDesc(SubSeq(items, 1, Len(items) - 1)),
                    items[Len(items)])

\* result = sorted_items[:n], padded with pad up to n items.
TopN(items, n, pad) ==
    [i \in 1..n |-> IF i <= Len(items) THEN SortedDesc(items)[i] ELSE pad]

get_top_hand_types(stats, n) ==
    IF stats.hand_types_won = << >>
    THEN [i \in 1..n |-> [label |-> "No wins", count |-> 0]]
    ELSE TopN(stats.hand_types_won, n, [label |-> "No wins", count |-> 0])

\* The same sort for items whose count is a float.
InsertDescAmount(items, x) ==
    LET below == {i \in 1..Len(items) : FLess(items[i].count, x.count)}
        at    == IF below = {} THEN Len(items) + 1
                 ELSE CHOOSE i \in below : \A j \in below : i <= j
    IN  SubSeq(items, 1, at - 1) \o <<x>> \o SubSeq(items, at, Len(items))

RECURSIVE SortedDescAmount(_)
SortedDescAmount(items) ==
    IF items = << >> THEN << >>
    ELSE InsertDescAmount(SortedDescAmount(SubSeq(items, 1, Len(items) - 1)),
                          items[Len(items)])

TopNAmount(items, n, pad) ==
    [i \in 1..n |->
        IF i <= Len(items) THEN SortedDescAmount(items)[i] ELSE pad]

\* The keys of betting_phase_amounts in their order.
PhaseOrder == << "preflop", "flop", "turn", "river" >>

get_top_betting_phases(stats, n) ==
    TopNAmount([i \in 1..4 |->
                   [label |-> PhaseOrder[i],
                    count |-> stats.betting_phase_amounts[PhaseOrder[i]]]],
               n, [label |-> "None", count |-> FZero])

\* round(vpip_hands / hands_dealt * 100, 2) or round(0, 2), in hundredths of
\* a percent.
VpipPercentage(stats) ==
    IF stats.hands_dealt > 0
    THEN Round2(FTimes(FDivInts(stats.vpip_hands, stats.hands_dealt), 100))
    ELSE 0

\* Variant: the admin adjustments are added to the profit.
ReportOf_AdminAdded(stats) ==
    LET types  == get_top_hand_types(stats, 2)
        phases == get_top_betting_phases(stats, 2)
    IN  [hands_dealt |-> stats.hands_dealt,
         vpip_hands |-> stats.vpip_hands,
         vpip_percentage |-> VpipPercentage(stats),
         buy_ins |-> Round2(stats.buy_ins),
         admin_adjustments |-> Round2(stats.admin_adjustments),
         final_stack |-> Round2(stats.final_stack),
         cash_outs |-> Round2(stats.cash_outs),
         actual_profit |->
             Round2(FAdd(FSub(FAdd(stats.final_stack, stats.cash_outs),
                              stats.buy_ins),
                         stats.admin_adjustments)),
         estimated_profit |->
             Round2(FSub(stats.total_winnings, stats.total_put_in_pot)),
         total_put_in_pot |-> Round2(stats.total_put_in_pot),
         total_winnings |-> Round2(stats.total_winnings),
         wins |-> stats.wins,
         top_hand_type |-> types[1].label,
         top_hand_type_count |-> types[1].count,
         second_hand_type |-> types[2].label,
         second_hand_type_count |-> types[2].count,
         top_betting_phase |-> phases[1].label,
         top_betting_amount |-> Round2(phases[1].count),
         second_betting_phase |-> phases[2].label,
         second_betting_amount |-> Round2(phases[2].count)]

\* The report record of one player; a value the code rounds to two places is
\* given in hundredths.
ReportOf(stats) ==
    LET types  == get_top_hand_types(stats, 2)
        phases == get_top_betting_phases(stats, 2)
    IN  [hands_dealt |-> stats.hands_dealt,
         vpip_hands |-> stats.vpip_hands,
         vpip_percentage |-> VpipPercentage(stats),
         buy_ins |-> Round2(stats.buy_ins),
         admin_adjustments |-> Round2(stats.admin_adjustments),
         final_stack |-> Round2(stats.final_stack),
         cash_outs |-> Round2(stats.cash_outs),
         actual_profit |->
             Round2(FSub(FSub(FAdd(stats.final_stack, stats.cash_outs),
                              stats.buy_ins),
                         stats.admin_adjustments)),
         estimated_profit |->
             Round2(FSub(stats.total_winnings, stats.total_put_in_pot)),
         total_put_in_pot |-> Round2(stats.total_put_in_pot),
         total_winnings |-> Round2(stats.total_winnings),
         wins |-> stats.wins,
         top_hand_type |-> types[1].label,
         top_hand_type_count |-> types[1].count,
         second_hand_type |-> types[2].label,
         second_hand_type_count |-> types[2].count,
         top_betting_phase |-> phases[1].label,
         top_betting_amount |-> Round2(phases[1].count),
         second_betting_phase |-> phases[2].label,
         second_betting_amount |-> Round2(phases[2].count)]

generate_report(ps) == [p \in DOMAIN ps |-> ReportOf(ps[p])]

----------------------------------------------------------------------------
\* The three methods run on rows from the start, as run_analysis runs them.
\* A turn of a loop works on the finished value of the turn before it
\* (Settled), so that a long log does not nest its turns into each other.

RECURSIVE LedgerLoop(_, _, _)
LedgerLoop(ps, rows, n) ==
    IF n > Len(rows) THEN ps
    ELSE LET next == LedgerEntry(ps, rows[n].entry)
         IN  IF Settled(next) THEN LedgerLoop(next, rows, n + 1) ELSE next

RECURSIVE HandsLoop(_, _, _)
HandsLoop(st, rows, n) ==
    IF n > Len(rows) THEN st
    ELSE LET next == HandsEntry(st, rows[n].entry)
         IN  IF Settled(next) THEN HandsLoop(next, rows, n + 1) ELSE next

RECURSIVE CalcLoop(_, _, _)
CalcLoop(ps, hs, n) ==
    IF n > Len(hs) THEN ps
    ELSE LET next == CalcHand(ps, hs[n])
         IN  IF Settled(next) THEN CalcLoop(next, hs, n + 1) ELSE next

parse_buy_ins_and_stacks(rows) == LedgerLoop(<< >>, SortByOrder(rows), 1)

parse_hands(rows) ==
    FlushLastHand(HandsLoop(HandsStart, SortByOrder(rows), 1)).hands

calculate_stats(ps, hs) == CalcLoop(ps, hs, 1)

run_analysis(rows) ==
    LET hs == parse_hands(rows)
        ps == calculate_stats(parse_buy_ins_and_stacks(rows), hs)
    IN  [hands |-> hs, player_stats |-> ps, report |-> generate_report(ps)]

----------------------------------------------------------------------------
\* What the claims speak of.

\* The entry the running loop is at.
Entry == Sorted[idx].entry

\* A float of the statistics read as money: its value to the cent, in
\* hundredths, as the report gives it.
Cents(x) == Round2(x)

\* The statistics of a player that come from the hands.
HandDerived(ps, p) ==
    [hands_dealt |-> Stat(ps, p).hands_dealt,
     vpip_hands |-> Stat(ps, p).vpip_hands,
     total_put_in_pot |-> Stat(ps, p).total_put_in_pot,
     wins |-> Stat(ps, p).wins,
     total_winnings |-> Stat(ps, p).total_winnings]

\* C1: after parse_hands and calculate_stats have run, every player's
\* vpip_hands is at most that player's hands_dealt.
C1_VpipAtMostDealt ==
    pc = "done" =>
        \A p \in Names :
            Stat(player_stats, p).vpip_hands <= Stat(player_stats, p).hands_dealt

\* rows[k] is a hand start read while the hand started by rows[j] is open.
DroppedSpan(rows, j, k) ==
    /\ j < k
    /\ IsHandStart(rows[j].entry)
    /\ IsHandStart(rows[k].entry)
    /\ \A m \in (j + 1)..(k - 1) :
          ~IsHandStart(rows[m].entry) /\ ~IsHandEnd(rows[m].entry)

\* rows without rows[j], ..., rows[k - 1].
Without(rows, j, k) ==
    [i \in 1..(Len(rows) - (k - j)) |->
        IF i < j THEN rows[i] ELSE rows[i + (k - j)]]

\* C2, the step: a hand start read while a hand is open appends nothing to
\* the finalized hands and opens a hand with empty action, phase and winner
\* lists and an empty player set.
C2_StartDropsOpenHand ==
    (pc = "parse_hands" /\ idx <= Len(df) /\ current_hand # << >>
        /\ IsHandStart(Entry))
    => /\ hands' = hands
       /\ player_stats' = player_stats
       /\ Len(current_hand') = 1
       /\ current_hand'[1].actions = << >>
       /\ current_hand'[1].winners = << >>
       /\ \A ph \in Phases : current_hand'[1].phases[ph] = << >>
       /\ current_hand_players' = {}

\* C2, the result: the finalized hands and every player's hand-derived
\* statistics are those of the log without the dropped hand's entries.
C2_DroppedHandLeavesNoTrace ==
    pc = "done" =>
        \A j \in 1..Len(df) : \A k \in 1..Len(df) :
            DroppedSpan(Sorted, j, k) =>
                LET r == run_analysis(Without(Sorted, j, k))
                IN  /\ r.hands = hands
                    /\ \A p \in Names :
                          HandDerived(r.player_stats, p)
                              = HandDerived(player_stats, p)

\* C2: a hand that is open when a hand-start marker is read is never
\* finalized and contributes to no hand-derived statistic; a fresh, empty
\* hand is opened.
C2_DroppedHand ==
    [][C2_StartDropsOpenHand]_vars /\ [](C2_DroppedHandLeavesNoTrace)

\* C2 happens: a hand with a voluntary preflop call was dropped and the run
\* ended with no hand counted for the caller.
C2_Witness ==
    /\ pc = "done"
    /\ \E j \in 1..Len(df) : \E k \in 1..Len(df) :
          /\ DroppedSpan(Sorted, j, k)
          /\ \E m \in (j + 1)..(k - 1) :
                /\ is_vpip_action(Sorted[m].entry)
                /\ extract_player_name(Sorted[m].entry) = "A"
    /\ Stat(player_stats, "A").vpip_hands = 0
    /\ Len(hands) = 1

----------------------------------------------------------------------------
\* C3, the step: the flush appends the open hand once, with the names
\* gathered from its snapshot lines, as the hand-end part of the loop would.
C3_FlushStep ==
    /\ (pc = "parse_hands" /\ idx > Len(df) /\ current_hand # << >>)
        => /\ hands' = Append(hands, [current_hand[1] EXCEPT
                                         !.players_dealt = current_hand_players])
           /\ hands' = HandsEntry(HandsState, EEnd).hands
    /\ pc = "calculate_stats" => hands' = hands

\* C3, the result: a run that ends with a hand open ends as the run of the
\* same log with a hand-end marker after its last entry.
C3_FlushResult ==
    (pc = "done" /\ current_hand # << >>) =>
        LET r == run_analysis(
                     Append(Sorted, [order |-> Len(df) + 1, entry |-> EEnd]))
        IN  r.hands = hands /\ r.player_stats = player_stats

\* C3: a hand open at the end of the input is finalized exactly once, with
\* players_dealt the names of its snapshot lines, as if a hand-end marker
\* had followed the last entry.
C3_ImplicitFlush == [][C3_FlushStep]_vars /\ [](C3_FlushResult)

\* C3 happens: the input ended inside a hand that named A and B, and the
\* hand was counted for both.
C3_Witness ==
    /\ pc = "done"
    /\ current_hand # << >>
    /\ current_hand_players = {"A", "B"}
    /\ Len(hands) = 1
    /\ hands[1].players_dealt = {"A", "B"}
    /\ Stat(player_stats, "A").hands_dealt = 1

----------------------------------------------------------------------------
\* Every action recorded so far: of the finalized hands and the open hand.
RecordedActions ==
    UNION {{hands[h].actions[n] : n \in 1..Len(hands[h].actions)} :
              h \in 1..Len(hands)}
        \cup (IF current_hand = << >> THEN {}
              ELSE {current_hand[1].actions[n] :
                       n \in 1..Len(current_hand[1].actions)})

\* The preflop actions of player p in a hand.
PreflopActions(hand, p) ==
    {hand.actions[n] :
        n \in {m \in 1..Len(hand.actions) :
                  hand.actions[m].player = p /\ hand.actions[m].phase = "preflop"}}

\* C4, the flag: an entry matching a forced pattern is never VPIP-eligible.
C4_ForcedNeverVpip ==
    \A a \in RecordedActions : IsForced(a.action) => ~a.is_vpip

\* C4, the count: a hand in which all of a player's preflop actions are
\* forced leaves the player's vpip_hands alone; a hand with a preflop
\* `calls 4.00` of the player raises it.
C4_CountStep ==
    (pc = "calculate_stats" /\ idx <= Len(hands)) =>
        \A p \in Names :
            /\ (\A a \in PreflopActions(hands[idx], p) : IsForced(a.action))
                  => Stat(player_stats', p).vpip_hands
                         = Stat(player_stats, p).vpip_hands
            /\ ECalls(p, "4.00") \in
                     {a.action : a \in PreflopActions(hands[idx], p)}
                  => Stat(player_stats', p).vpip_hands
                         = Stat(player_stats, p).vpip_hands + 1

\* C4: forced patterns take precedence over voluntary ones; forced posts
\* alone never raise vpip_hands, a preflop `calls 4.00` does.
C4_ForcedPrecedence == [](C4_ForcedNeverVpip) /\ [][C4_CountStep]_vars

\* C4 happens: a finalized hand holds a preflop entry of B that matches a
\* forced and a voluntary pattern, and a preflop `calls 4.00` of A; B was
\* not counted, A was.
C4_Witness ==
    /\ pc = "done"
    /\ Len(hands) = 1
    /\ \E a \in PreflopActions(hands[1], "B") :
          IsForced(a.action) /\ IsVoluntary(a.action)
    /\ \E a \in PreflopActions(hands[1], "A") :
          a.action = ECalls("A", "4.00")
    /\ Stat(player_stats, "B").vpip_hands = 0
    /\ Stat(player_stats, "A").vpip_hands = 1

----------------------------------------------------------------------------
\* Player p has a VPIP-eligible preflop action in the hand.
HasVpipAction(hand, p) ==
    \E a \in PreflopActions(hand, p) : is_vpip_action(a.action)

\* C5, the step: the calculate_stats turn for a hand raises vpip_hands of a
\* player by 1 when the player has a VPIP-eligible preflop action in the
\* hand, however many, and by 0 otherwise.
C5_OncePerHandStep ==
    (pc = "calculate_stats" /\ idx <= Len(hands)) =>
        \A p \in Names :
            Stat(player_stats', p).vpip_hands =
                Stat(player_stats, p).vpip_hands
                    + (IF HasVpipAction(hands[idx], p) THEN 1 ELSE 0)

\* C5: every finalized hand raises a player's vpip_hands by exactly 1 when
\* the player has at least one VPIP-eligible preflop action in it, and by 0
\* otherwise.
C5_OncePerHand == [][C5_OncePerHandStep]_vars

\* C5 happens: A called and bet preflop in the one finalized hand and was
\* counted once.
C5_Witness ==
    /\ pc = "done"
    /\ Len(hands) = 1
    /\ Cardinality({a \in PreflopActions(hands[1], "A") :
                       is_vpip_action(a.action)}) >= 2
    /\ Stat(player_stats, "A").vpip_hands = 1

----------------------------------------------------------------------------
\* The entries of rows, in their order.
Entries(rows) == [i \in 1..Len(rows) |-> rows[i].entry]

\* hand_types_won[label] of player p (0 when the label is no key).
HandTypeCount(ps, p, label) ==
    LET items == Stat(ps, p).hand_types_won
        at    == {i \in 1..Len(items) : items[i].label = label}
    IN  IF at = {} THEN 0 ELSE items[CHOOSE i \in at : TRUE].count

\* The statistics the end-to-end scenario names, in the order hands_dealt
\* of A and B, vpip_hands of A and B, wins and "Two Pair" wins of B,
\* total_put_in_pot of A and B.
ScenarioStats ==
    << Stat(player_stats, "A").hands_dealt, Stat(player_stats, "B").hands_dealt,
       Stat(player_stats, "A").vpip_hands, Stat(player_stats, "B").vpip_hands,
       Stat(player_stats, "B").wins, HandTypeCount(player_stats, "B", "Two Pair"),
       Cents(Stat(player_stats, "A").total_put_in_pot),
       Cents(Stat(player_stats, "B").total_put_in_pot) >>

\* C6 as stated: with the amounts written as whole numbers the scenario
\* ends with hands_dealt 1 and 1, vpip_hands 1 and 0, B.wins 1, one Two
\* Pair win, total_put_in_pot 7 for A and 2 for B.
C6_ScenarioAsStated ==
    (pc = "done" /\ Entries(Sorted) = ScenarioWhole)
        => ScenarioStats = << 1, 1, 1, 0, 1, 1, 700, 200 >>

\* C6, amended: with the amounts written as whole numbers no amount is
\* extracted and `calls 2` is no voluntary action, so vpip_hands of A is 0
\* and total_put_in_pot is 0 for A and B; with the amounts of the actions
\* written with decimals vpip_hands of A is 1, total_put_in_pot is 8 for A
\* (small blind 1, call 2, bet 5) and 2 for B.  The other figures are as
\* stated.
C6_Scenario ==
    pc = "done" =>
        /\ Entries(Sorted) = ScenarioWhole
              => ScenarioStats = << 1, 1, 0, 0, 1, 1, 0, 0 >>
        /\ Entries(Sorted) = ScenarioDecimal
              => ScenarioStats = << 1, 1, 1, 0, 1, 1, 800, 200 >>

\* C6 happens: the scenario as written has run to its end; its call and its
\* bet are recorded with amount 0.
C6_Witness ==
    /\ pc = "done"
    /\ Entries(Sorted) = ScenarioWhole
    /\ Len(hands) = 1
    /\ Len(hands[1].actions) = 5
    /\ \A n \in 1..5 : hands[1].actions[n].amount = FZero

----------------------------------------------------------------------------
\* The entry is a cash-out line.
IsCashOut(e) == Search(e, CashOutPattern).ok

\* C7: a cash-out entry read while a hand is open is no action of the hand,
\* and its amount is in no total_put_in_pot or per-phase amount: a player
\* whose entries in the finalized hands are all cash-outs has put in nothing.
C7_CashOutOnlyInLedger ==
    /\ \A a \in RecordedActions : ~IsCashOut(a.action)
    /\ pc = "done" =>
          \A p \in Names :
              (\A h \in 1..Len(hands) : \A n \in 1..Len(hands[h].actions) :
                  hands[h].actions[n].player = p
                      => IsCashOut(hands[h].actions[n].action))
              => /\ Cents(Stat(player_stats, p).total_put_in_pot) = 0
                 /\ \A ph \in Phases :
                       Cents(Stat(player_stats, p).betting_phase_amounts[ph]) = 0

----------------------------------------------------------------------------
\* The number an amount text of the logs writes, in hundredths (the text has
\* two places after the point at most).
HundredthsOf(t) ==
    LET w    == RunEnd(t, 1, Digits, TRUE)
        d(i) == IF At(t, i) \in Digits THEN DigitValue[At(t, i)] ELSE 0
    IN  IntOfDigits(t, w) * 100 + d(w + 2) * 10 + d(w + 3)

\* The positions, among the stack pairs of a snapshot line, of those of
\* player p.
StackPositions(e, p) ==
    LET pairs == FindAll(e, StackPattern)
    IN  {n \in 1..Len(pairs) : pairs[n][1] = p}

\* The text of the stack a snapshot line gives player p (its last one for
\* p).
StackTextOf(e, p) ==
    FindAll(e, StackPattern)[CHOOSE n \in StackPositions(e, p) :
                                \A m \in StackPositions(e, p) : m <= n][2]

\* That stack in hundredths.
StackOf(e, p) == HundredthsOf(StackTextOf(e, p))

\* The stack of p in the row of the highest order among the rows at
\* positions I that are snapshot lines with a stack for p; 0 without one.
LastStackAmong(rows, I, p) ==
    LET S == {i \in I : IsSnapshot(rows[i].entry)
                           /\ StackPositions(rows[i].entry, p) # {}}
    IN  IF S = {} THEN 0
        ELSE StackOf(rows[CHOOSE i \in S :
                              \A j \in S : rows[j].order <= rows[i].order].entry, p)

\* A hand is open when parse_hands reads rows[i] (rows in reading order).
OpenBefore(rows, i) ==
    HandsLoop(HandsStart, SubSeq(rows, 1, i - 1), 1).current_hand # << >>

\* C8 as stated: only the snapshot lines read with no hand open set
\* final_stack; a snapshot line read with a hand open leaves it unchanged.
C8_OnlyOutsideHands ==
    pc # "parse_buy_ins_and_stacks" =>
        \A p \in Names :
            Cents(Stat(player_stats, p).final_stack) =
                LastStackAmong(Sorted,
                               {i \in 1..Len(df) : ~OpenBefore(Sorted, i)}, p)

\* The entry is read as a snapshot line by parse_buy_ins_and_stacks.
LedgerSnapshot(e) ==
    /\ IsSnapshot(e)
    /\ ~Search(e, BuyInPattern).ok
    /\ ~Search(e, StackUpdatePattern).ok
    /\ ~Search(e, StackResetPattern).ok
    /\ ~Search(e, CashOutPattern).ok

\* The entry is read as a snapshot line of the open hand by parse_hands.
HandSnapshot(e) ==
    /\ IsSnapshot(e)
    /\ ~IsHandStart(e)
    /\ ~Contains(e, "Flop:")
    /\ ~Contains(e, "Turn:")
    /\ ~Contains(e, "River:")

\* C8, amended, the hand pass: a snapshot line read with a hand open, one
\* that is no hand start and holds no phase marker, only unions its quoted
\* names into the hand's player set.
C8_HandStep ==
    (pc = "parse_hands" /\ idx <= Len(df) /\ current_hand # << >>
        /\ HandSnapshot(Entry))
    => /\ current_hand_players' = current_hand_players \cup QuotedNames(Entry)
       /\ UNCHANGED << player_stats, hands, current_hand, current_phase >>

\* C8, amended, the ledger pass: a snapshot line that is no buy-in, stack
\* update, stack reset or cash-out line, inside a hand or not, sets
\* final_stack of the players it gives a stack, and only theirs.
C8_LedgerStep ==
    (pc = "parse_buy_ins_and_stacks" /\ idx <= Len(df) /\ LedgerSnapshot(Entry))
    => \A p \in Names :
          Stat(player_stats', p) =
              IF StackPositions(Entry, p) # {}
              THEN [Stat(player_stats, p) EXCEPT
                       !.final_stack = FloatOfText(StackTextOf(Entry, p))]
              ELSE Stat(player_stats, p)

\* C8, amended: a snapshot line that no earlier rule of the pass reads, read
\* while a hand is open, unions its quoted names into the open hand's player
\* set, and it sets final_stack of the players it names as a snapshot line
\* read with no hand open does.
C8_SnapshotBothPasses == [][C8_HandStep]_vars /\ [][C8_LedgerStep]_vars

\* C8 happens: the only snapshot line of the log was read with a hand open;
\* it named A and B for the hand and set the final_stack of A.
C8_Witness ==
    /\ pc = "done"
    /\ \E i \in 1..Len(df) :
          /\ IsSnapshot(Sorted[i].entry)
          /\ OpenBefore(Sorted, i)
          /\ \A j \in 1..Len(df) : IsSnapshot(Sorted[j].entry) => j = i
          /\ StackOf(Sorted[i].entry, "A") = 10000
    /\ Cents(Stat(player_stats, "A").final_stack) = 10000
    /\ Len(hands) = 1
    /\ hands[1].players_dealt = {"A", "B"}

----------------------------------------------------------------------------
\* C9: after the ledger pass final_stack of every player is the stack given
\* to the player by the snapshot line of the highest sequence number that
\* names the player, 0 when no snapshot line names the player.
C9_LastSnapshotWins ==
    pc # "parse_buy_ins_and_stacks" =>
        \A p \in Names :
            Cents(Stat(player_stats, p).final_stack)
                = LastStackAmong(df, 1..Len(df), p)

\* C9 happens: two snapshot lines gave A different stacks, the file held the
\* later one first, and final_stack of A is the later stack, not the sum.
C9_Witness ==
    /\ pc = "done"
    /\ Len(df) = 2
    /\ df[1].order = 2 /\ df[1].entry = ESnapA
    /\ df[2].order = 1 /\ df[2].entry = ESnapAB
    /\ Cents(Stat(player_stats, "A").final_stack) = 15050
    /\ Cents(Stat(player_stats, "B").final_stack) = 10000

----------------------------------------------------------------------------
\* Rows i of the file moved to the places f gives them.
Rearranged(rows, f) == [i \in 1..Len(rows) |-> rows[f[i]]]

\* The file with rows i and j swapped.
Swapped(rows, i, j) ==
    [k \in 1..Len(rows) |->
        IF k = i THEN rows[j] ELSE IF k = j THEN rows[i] ELSE rows[k]]

\* Other files with the same rows: every order of the rows of a file of up
\* to three rows; the reverse, a rotation and every swap of two rows of a
\* longer one.
Rearrangements(rows) ==
    LET n == Len(rows)
    IN  IF n <= 3
        THEN {Rearranged(rows, f) : f \in Permutations(1..n)}
        ELSE { [i \in 1..n |-> rows[n + 1 - i]],
               [i \in 1..n |-> rows[(i % n) + 1]] }
                 \cup {Swapped(rows, i, j) : i, j \in 1..n}

\* C10: the ledger, the finalized hands and the report of a run are those
\* of the run on any other file that holds the same rows in another order.
C10_FileOrderIrrelevant ==
    pc = "done" =>
        \A r \in Rearrangements(df) :
            run_analysis(r) =
                [hands |-> hands, player_stats |-> player_stats,
                 report |-> generate_report(player_stats)]

\* C10 happens: the file held a hand of three rows in reverse, and the run
\* ended with the hand dealt to A and A's call counted.
C10_Witness ==
    /\ pc = "done"
    /\ Len(df) = 3
    /\ df[1].order = 3 /\ df[3].order = 1
    /\ Entries(Sorted) = << EStart, ESnapAB, ECalls("A", "4.00") >>
    /\ Stat(player_stats, "A").hands_dealt = 1
    /\ Stat(player_stats, "A").vpip_hands = 1
    /\ Cents(Stat(player_stats, "A").final_stack) = 10000

----------------------------------------------------------------------------
\* rows[i] is an entry with an actor prefix, no hand start, that parse_hands
\* reads with no hand open (rows in reading order).
Orphan(rows, i) ==
    /\ extract_player_name(rows[i].entry) # ""
    /\ ~IsHandStart(rows[i].entry)
    /\ ~OpenBefore(rows, i)

\* C11, the step: an entry with an actor prefix read with no hand open
\* leaves the finalized hands, the (absent) open hand and every statistic
\* as they are.
C11_OrphanStep ==
    (pc = "parse_hands" /\ idx <= Len(df) /\ current_hand = << >>
        /\ extract_player_name(Entry) # "" /\ ~IsHandStart(Entry))
    => UNCHANGED << hands, current_hand, current_hand_players, current_phase,
                    player_stats >>

\* C11, the result: the finalized hands and every player's hand-derived
\* statistics are those of the log without the orphan entry.
C11_OrphanLeavesNoTrace ==
    pc = "done" =>
        \A i \in 1..Len(df) :
            Orphan(Sorted, i) =>
                LET r == run_analysis(Without(Sorted, i, i + 1))
                IN  /\ r.hands = hands
                    /\ \A p \in Names :
                          HandDerived(r.player_stats, p)
                              = HandDerived(player_stats, p)

\* C11: an entry with an actor prefix processed while no hand is open is
\* discarded: it is in no hand's actions, phases or winners and changes no
\* player's hands_dealt, vpip_hands, total_put_in_pot, wins or
\* total_winnings.
C11_OrphanDiscarded ==
    [][C11_OrphanStep]_vars /\ [](C11_OrphanLeavesNoTrace)

\* C11 happens: a voluntary call of A was read after the end of the only
\* hand; the hand holds no action and A has put in nothing and has no VPIP
\* hand.
C11_Witness ==
    /\ pc = "done"
    /\ Entries(Sorted) = << EStart, EEnd, ECalls("A", "4.00") >>
    /\ Orphan(Sorted, 3)
    /\ Len(hands) = 1
    /\ hands[1].actions = << >>
    /\ Cents(Stat(player_stats, "A").total_put_in_pot) = 0
    /\ Stat(player_stats, "A").vpip_hands = 0

----------------------------------------------------------------------------
\* What the entries of the ledger say, read from the rows themselves.
\* The entry is a buy-in of p, a stack update of p, a cash-out of p.
IsBuyInOf(e, p) ==
    Search(e, BuyInPattern).ok /\ Search(e, BuyInPattern).groups[1] = p

IsUpdateOf(e, p) ==
    /\ ~Search(e, BuyInPattern).ok
    /\ Search(e, StackUpdatePattern).ok
    /\ Search(e, StackUpdatePattern).groups[1] = p

IsCashOutOf(e, p) ==
    /\ ~Search(e, BuyInPattern).ok
    /\ ~Search(e, StackUpdatePattern).ok
    /\ ~Search(e, StackResetPattern).ok
    /\ Search(e, CashOutPattern).ok
    /\ Search(e, CashOutPattern).groups[1] = p

\* X and Y of `stack from X to Y`, in hundredths.
UpdateFrom(e) == HundredthsOf(Search(e, StackUpdatePattern).groups[2])

UpdateTo(e) == HundredthsOf(Search(e, StackUpdatePattern).groups[3])

\* The ledger totals of p over rows[1..n]: the buy-ins approved, the stacks
\* cashed out, the increases of the stack updates.
RECURSIVE BuyInTotal(_, _, _)
BuyInTotal(rows, n, p) ==
    IF n = 0 THEN 0
    ELSE BuyInTotal(rows, n - 1, p)
           + (IF IsBuyInOf(rows[n].entry, p)
              THEN HundredthsOf(Search(rows[n].entry, BuyInPattern).groups[2])
              ELSE 0)

RECURSIVE CashOutTotal(_, _, _)
CashOutTotal(rows, n, p) ==
    IF n = 0 THEN 0
    ELSE CashOutTotal(rows, n - 1, p)
           + (IF IsCashOutOf(rows[n].entry, p)
              THEN HundredthsOf(Search(rows[n].entry, CashOutPattern).groups[2])
              ELSE 0)

RECURSIVE IncreaseTotal(_, _, _)
IncreaseTotal(rows, n, p) ==
    IF n = 0 THEN 0
    ELSE IncreaseTotal(rows, n - 1, p)
           + (IF IsUpdateOf(rows[n].entry, p)
                   /\ UpdateTo(rows[n].entry) > UpdateFrom(rows[n].entry)
              THEN UpdateTo(rows[n].entry) - UpdateFrom(rows[n].entry)
              ELSE 0)

\* C12, the formula: actual_profit of every player of the report is
\* final_stack + cash_outs - buy_ins - admin_adjustments of the player's
\* statistics, and these are the totals of the player's ledger entries.
C12_ProfitOfLedger ==
    pc = "done" =>
        \A p \in DOMAIN player_stats :
            LET rep == generate_report(player_stats)[p]
            IN  /\ rep.actual_profit =
                       Cents(player_stats[p].final_stack)
                         + Cents(player_stats[p].cash_outs)
                         - Cents(player_stats[p].buy_ins)
                         - Cents(player_stats[p].admin_adjustments)
                /\ rep.actual_profit =
                       LastStackAmong(df, 1..Len(df), p)
                         + CashOutTotal(df, Len(df), p)
                         - BuyInTotal(df, Len(df), p)
                         - IncreaseTotal(df, Len(df), p)

\* C12, the example: buy_ins 100, cash_outs 0, admin_adjustments 0 and
\* final_stack 150 give actual_profit 50.
C12_Example ==
    \A p \in DOMAIN player_stats :
        (/\ player_stats[p].buy_ins = FloatOfInt(100)
         /\ player_stats[p].cash_outs = FZero
         /\ player_stats[p].admin_adjustments = FZero
         /\ player_stats[p].final_stack = FloatOfInt(150))
        => generate_report(player_stats)[p].actual_profit = 5000

\* C12, a session with every kind of ledger entry: a buy-in of 100, an
\* increase of 50, a decrease that counts for nothing, a last snapshot of
\* 150.50 and a cash-out of 50.00 give 150.50 + 50 - 100 - 50 = 50.50.
C12_Session ==
    (pc = "done" /\ Entries(Sorted) = LedgerScenario)
        => generate_report(player_stats)["A"].actual_profit = 5050

\* C12, floats: buy-ins of 0.10 and 0.20, an increase of 0.20 and a last
\* stack of 0.30 give 0.30 - 0.30 - 0.20 = -0.20, though neither the sum of
\* the buy-ins nor the increase is the float of its decimal value.
C12_FloatSession ==
    (pc = "done" /\ Entries(Sorted) = FloatLedger)
        => /\ player_stats["A"].buy_ins # FloatOfText("0.30")
           /\ player_stats["A"].admin_adjustments # FloatOfText("0.20")
           /\ generate_report(player_stats)["A"].actual_profit = 0 - 20

\* C12: for every player in the report actual_profit equals final_stack +
\* cash_outs - buy_ins - admin_adjustments of that player's ledger totals;
\* buy_ins 100, cash_outs 0, admin_adjustments 0, final_stack 150 give 50.
C12_ActualProfit ==
    C12_ProfitOfLedger /\ C12_Example /\ C12_Session /\ C12_FloatSession

\* C12 happens: a buy-in of 100 and a snapshot of 150 for A, nothing else,
\* and the report gives A a profit of 50.
C12_Witness ==
    /\ pc = "done"
    /\ Entries(Sorted) = << EBuyIn("A", "100"), ESnapA150 >>
    /\ player_stats["A"].buy_ins = FloatOfInt(100)
    /\ player_stats["A"].admin_adjustments = FZero
    /\ player_stats["A"].cash_outs = FZero
    /\ player_stats["A"].final_stack = FloatOfInt(150)
    /\ generate_report(player_stats)["A"].actual_profit = 5000

----------------------------------------------------------------------------
\* The ledger fields of a player, to the cent.
LedgerFields(ps, p) ==
    [buy_ins |-> Cents(Stat(ps, p).buy_ins),
     cash_outs |-> Cents(Stat(ps, p).cash_outs),
     final_stack |-> Cents(Stat(ps, p).final_stack),
     admin_adjustments |-> Cents(Stat(ps, p).admin_adjustments)]

\* The entry is read as a stack update by parse_buy_ins_and_stacks.
IsStackUpdate(e) ==
    ~Search(e, BuyInPattern).ok /\ Search(e, StackUpdatePattern).ok

\* C17, the step: a stack update from X to Y of a player adds Y - X to the
\* player's admin_adjustments when Y > X, and changes nothing at all when
\* Y <= X; no other ledger field of any player changes.
C17_UpdateStep ==
    (pc = "parse_buy_ins_and_stacks" /\ idx <= Len(df) /\ IsStackUpdate(Entry))
    => IF UpdateTo(Entry) > UpdateFrom(Entry)
       THEN \A p \in Names :
               LedgerFields(player_stats', p) =
                   IF IsUpdateOf(Entry, p)
                   THEN [LedgerFields(player_stats, p) EXCEPT
                            !.admin_adjustments =
                                @ + UpdateTo(Entry) - UpdateFrom(Entry)]
                   ELSE LedgerFields(player_stats, p)
       ELSE player_stats' = player_stats

\* C17, the run: admin_adjustments of a player never decreases.
C17_NeverDecreases ==
    \A p \in Names :
        ~FLess(Stat(player_stats', p).admin_adjustments,
               Stat(player_stats, p).admin_adjustments)

\* C17: a stack update from X to Y adds Y - X to the player's
\* admin_adjustments when Y > X and leaves admin_adjustments and every
\* other ledger field of every player unchanged when Y <= X;
\* admin_adjustments never decreases over the run.
C17_StackUpdate == [][C17_UpdateStep]_vars /\ [][C17_NeverDecreases]_vars

\* C17 happens: an increase from 100 to 150, a decrease from 150 to 100.00
\* and an update from 50.50 to 50.50 were read; A's admin_adjustments are
\* 50 and B has none.
C17_Witness ==
    /\ pc = "done"
    /\ Len(df) = 3
    /\ \E i \in 1..3 : Sorted[i].entry = EUpdate("A", "100", "150")
    /\ \E i \in 1..3 :
          Sorted[i].entry = EUpdate("A", "150", "100.00")
    /\ \E i \in 1..3 :
          Sorted[i].entry = EUpdate("B", "50.50", "50.50")
    /\ Cents(Stat(player_stats, "A").admin_adjustments) = 5000
    /\ "B" \notin DOMAIN player_stats

----------------------------------------------------------------------------
\* The wording of the hands of the priority list, in its order.
PatternWords ==
    << { "straight flush" }, { "four of a kind" }, { "full house" },
       { "flush" }, { "straight" }, { "three of a kind" }, { "two pair" },
       { "one pair", "pair" }, { "a high", "k high" },
       { "hi hand", "low hand" } >>

\* The entry holds `with` and the wording of hand n of the list.
MatchesPattern(e, n) ==
    \E ws \in PatternWords[n] : ContainsI(e, "with " \o ws)

\* The first hand of the list the entry matches, 0 when it matches none.
FirstPattern(e) ==
    LET hits == {n \in 1..Len(PatternWords) : MatchesPattern(e, n)}
    IN  IF hits = {} THEN 0 ELSE CHOOSE n \in hits : \A m \in hits : n <= m

\* The labels the hands of the list are given; those of `<rank> High` and
\* of `hi hand`/`low hand` are the ones extract_hand_type returns.
PatternLabel ==
    << "Straight Flush", "Four of a Kind", "Full House", "Flush", "Straight",
       "Three of a Kind", "Two Pair", "One Pair", "High Card", "Other" >>

IsCollectionAction(a) == IsCollection(a.action)

\* The winner records of a hand, each with the entry it was made from.
WinsOf(hand) ==
    LET sel == SelectSeq(hand.actions, IsCollectionAction)
    IN  {[entry |-> sel[k].action, hand_type |-> hand.winners[k].hand_type] :
            k \in 1..Len(hand.winners)}

\* Every winner record so far: of the finalized hands and the open hand.
AllWins ==
    UNION {WinsOf(hands[h]) : h \in 1..Len(hands)}
        \cup (IF current_hand = << >> THEN {} ELSE WinsOf(current_hand[1]))

\* C14: the hand type of a pot collection is the label of the first hand of
\* the priority list Straight Flush, Four of a Kind, Full House, Flush,
\* Straight, Three of a Kind, Two Pair, One Pair, <rank> High, hi/low hand
\* that the entry matches; an entry with Full House text and no hand above
\* it is "Full House" whatever lower hand it matches as well, and an entry
\* matching no hand is "Didn't Show".
C14_FirstPatternWins ==
    \A w \in AllWins :
        /\ w.hand_type = IF FirstPattern(w.entry) = 0 THEN "Didn't Show"
                         ELSE PatternLabel[FirstPattern(w.entry)]
        /\ (MatchesPattern(w.entry, 3) /\ ~MatchesPattern(w.entry, 1)
                /\ ~MatchesPattern(w.entry, 2))
              => w.hand_type = "Full House"
        /\ (\A n \in 1..Len(PatternWords) : ~MatchesPattern(w.entry, n))
              => w.hand_type = "Didn't Show"

\* C14 happens: a finalized hand holds a win whose entry names a pair
\* before a full house, and it is counted as a "Full House" win of B.
C14_Witness ==
    /\ pc = "done"
    /\ Len(hands) = 1
    /\ \E w \in WinsOf(hands[1]) :
          /\ w.entry = ECollectedWith("B", "9.00",
                             PhrasesFrom(<< 9, 3 >>, 1, FALSE, TRUE))
          /\ MatchesPattern(w.entry, 8)
          /\ w.hand_type = "Full House"
    /\ HandTypeCount(player_stats, "B", "Full House") = 1

----------------------------------------------------------------------------
\* The labels the claim allows: the names of the priority list, the rank
\* and the pot names as written, and "Didn't Show".
ListedLabels ==
    { "Straight Flush", "Four of a Kind", "Full House", "Flush", "Straight",
      "Three of a Kind", "Two Pair", "One Pair", "Pair", "A High", "K High",
      "hi hand", "low hand", "Didn't Show" }

\* C20 as stated: the hand type of every winner record is a name of the
\* priority list (with `<rank> High` and `hi hand`/`low hand` as labels) or
\* "Didn't Show"; a generic label is never given to an entry that matched.
C20_OnlyListedLabels == \A w \in AllWins : w.hand_type \in ListedLabels

\* C20, amended: the hand type of every winner record is one of Straight
\* Flush, Four of a Kind, Full House, Flush, Straight, Three of a Kind, Two
\* Pair, One Pair, "High Card", "Other" and "Didn't Show"; it is "High
\* Card" exactly when `<rank> High` is the first hand of the list the entry
\* matches, "Other" exactly when `hi hand`/`low hand` is, and "Didn't
\* Show" exactly when the entry matches none.
C20_Labels ==
    \A w \in AllWins :
        /\ w.hand_type \in
               { "Straight Flush", "Four of a Kind", "Full House", "Flush",
                 "Straight", "Three of a Kind", "Two Pair", "One Pair",
                 "High Card", "Other", "Didn't Show" }
        /\ w.hand_type = "High Card" <=> FirstPattern(w.entry) = 9
        /\ w.hand_type = "Other" <=> FirstPattern(w.entry) = 10
        /\ w.hand_type = "Didn't Show" <=> FirstPattern(w.entry) = 0

\* C20 happens: a pot won `with low hand` is counted as an "Other" win.
C20_Witness ==
    /\ pc = "done"
    /\ Len(hands) = 1
    /\ \E w \in WinsOf(hands[1]) :
          /\ w.entry = ECollectedWith("B", "9.00",
                             PhrasesFrom(<< 13 >>, 1, FALSE, FALSE))
          /\ w.hand_type = "Other"
    /\ HandTypeCount(player_stats, "B", "Other") = 1

----------------------------------------------------------------------------
\* The winner records of hs[n], hs[n + 1], ... one after the other.
RECURSIVE WinnersFrom(_, _)
WinnersFrom(hs, n) ==
    IF n > Len(hs) THEN << >> ELSE hs[n].winners \o WinnersFrom(hs, n + 1)

\* The wins of p with label l in the winner records ws, by position.
WinsAt(ws, p, l) ==
    {i \in 1..Len(ws) : ws[i].player = p /\ ws[i].hand_type = l}

\* Label l goes before label m: more wins, or as many and won first.
GoesBefore(ws, p, l, m) ==
    \/ Cardinality(WinsAt(ws, p, l)) > Cardinality(WinsAt(ws, p, m))
    \/ /\ Cardinality(WinsAt(ws, p, l)) = Cardinality(WinsAt(ws, p, m))
       /\ \E i \in WinsAt(ws, p, l) : \A j \in WinsAt(ws, p, m) : i < j

\* The label of L that goes before all others of L, with its count.
BestOf(ws, p, L) ==
    LET l == CHOOSE x \in L : \A m \in L \ {x} : GoesBefore(ws, p, x, m)
    IN  [label |-> l, count |-> Cardinality(WinsAt(ws, p, l))]

\* The two hand types the claim gives player p for the winner records ws.
TopTwoTypes(ws, p) ==
    LET L    == {ws[i].hand_type : i \in {j \in 1..Len(ws) : ws[j].player = p}}
        none == [label |-> "No wins", count |-> 0]
    IN  IF L = {} THEN << none, none >>
        ELSE IF Cardinality(L) = 1 THEN << BestOf(ws, p, L), none >>
        ELSE << BestOf(ws, p, L),
                BestOf(ws, p, L \ {BestOf(ws, p, L).label}) >>

\* C13: the top-2 hand types of every player of the report are the two
\* hand types with the most wins in descending order, ties broken by the
\* order in which the labels were first won, and ("No wins", 0) fills the
\* places of a player with fewer than two winning hand types.
C13_TopTwoHandTypes ==
    pc = "done" =>
        \A p \in DOMAIN player_stats :
            LET rep == generate_report(player_stats)[p]
                top == TopTwoTypes(WinnersFrom(hands, 1), p)
            IN  /\ get_top_hand_types(player_stats[p], 2) = top
                /\ rep.top_hand_type = top[1].label
                /\ rep.top_hand_type_count = top[1].count
                /\ rep.second_hand_type = top[2].label
                /\ rep.second_hand_type_count = top[2].count

\* C13 happens: B won with a Pair, then with a Flush, then with Two Pair,
\* and A called: of the three labels with one win each the report names the
\* two won first for B, One Pair before Flush, and "No wins" twice for A.
C13_Witness ==
    /\ pc = "done"
    /\ Len(hands) = 1
    /\ Len(hands[1].winners) = 3
    /\ hands[1].winners[1].hand_type = "One Pair"
    /\ hands[1].winners[2].hand_type = "Flush"
    /\ hands[1].winners[3].hand_type = "Two Pair"
    /\ "A" \in DOMAIN player_stats
    /\ generate_report(player_stats)["B"].top_hand_type = "One Pair"
    /\ generate_report(player_stats)["B"].second_hand_type = "Flush"
    /\ generate_report(player_stats)["A"].top_hand_type = "No wins"
    /\ generate_report(player_stats)["A"].second_hand_type = "No wins"

----------------------------------------------------------------------------
\* The amounts of the actions n, n + 1, ... of player p that are observed in
\* a phase of phs and are no pot collections, summed in hundredths.
RECURSIVE AmountsFrom(_, _, _, _)
AmountsFrom(actions, n, p, phs) ==
    IF n > Len(actions) THEN 0
    ELSE AmountsFrom(actions, n + 1, p, phs)
           + (IF /\ actions[n].player = p
                 /\ actions[n].phase \in phs
                 /\ ~Contains(actions[n].action, "collected")
              THEN Cents(actions[n].amount) ELSE 0)

\* C15, the flag: an action observed after a Flop:, Turn: or River: marker
\* of its hand is not VPIP-eligible.
C15_PostflopNeverVpip ==
    \A a \in RecordedActions : a.phase # "preflop" => ~a.is_vpip

\* C15, the count and the money: the calculate_stats turn for a hand leaves
\* vpip_hands of a player alone when none of the player's preflop actions
\* is voluntary, whatever the player did after the flop, and it adds the
\* amounts of the player's actions to total_put_in_pot and, phase by phase,
\* to the bucket of the phase they were observed in.
C15_CalcStep ==
    (pc = "calculate_stats" /\ idx <= Len(hands)) =>
        \A p \in Names :
            /\ (\A a \in PreflopActions(hands[idx], p) : ~IsVoluntary(a.action))
                  => Stat(player_stats', p).vpip_hands
                         = Stat(player_stats, p).vpip_hands
            /\ Cents(Stat(player_stats', p).total_put_in_pot) =
                   Cents(Stat(player_stats, p).total_put_in_pot)
                     + AmountsFrom(hands[idx].actions, 1, p, Phases)
            /\ \A ph \in Phases :
                   Cents(Stat(player_stats', p).betting_phase_amounts[ph]) =
                       Cents(Stat(player_stats, p).betting_phase_amounts[ph])
                         + AmountsFrom(hands[idx].actions, 1, p, {ph})

\* C15: a voluntary action observed after a Flop:, Turn: or River: marker
\* of the open hand is never VPIP-eligible and never raises vpip_hands; its
\* amount is added to total_put_in_pot and to the bucket of its phase.
C15_PostflopNotVpip == [](C15_PostflopNeverVpip) /\ [][C15_CalcStep]_vars

\* C15 happens: B raised to 8.00 and A bet 5.00 after the turn of a hand;
\* neither has a VPIP hand, and the amounts are in the totals and in the
\* turn buckets.
C15_Witness ==
    /\ pc = "done"
    /\ Entries(Sorted) = << EStart, ETurn, ERaises("B", "8.00"),
                           EBets("A", "5.00") >>
    /\ Stat(player_stats, "B").vpip_hands = 0
    /\ Cents(Stat(player_stats, "B").total_put_in_pot) = 800
    /\ Cents(Stat(player_stats, "B").betting_phase_amounts["turn"]) = 800
    /\ Stat(player_stats, "A").vpip_hands = 0
    /\ Cents(Stat(player_stats, "A").total_put_in_pot) = 500
    /\ Cents(Stat(player_stats, "A").betting_phase_amounts["turn"]) = 500

----------------------------------------------------------------------------
\* The phase of the hand open when rows[i] is read: that of the last phase
\* marker between the last hand start before rows[i] and rows[i], preflop
\* when there is none.
PhaseAt(rows, i) ==
    LET starts  == {j \in 1..(i - 1) : IsHandStart(rows[j].entry)}
        from    == CHOOSE j \in starts : \A k \in starts : k <= j
        markers == {j \in (from + 1)..(i - 1) :
                       \E m \in {"Flop:", "Turn:", "River:"} :
                           Contains(rows[j].entry, m)}
        last    == CHOOSE j \in markers : \A k \in markers : k <= j
    IN  IF markers = {} THEN "preflop"
        ELSE IF Contains(rows[last].entry, "Flop:") THEN "flop"
        ELSE IF Contains(rows[last].entry, "Turn:") THEN "turn"
        ELSE "river"

\* The entry is recorded as an action when read with a hand open.
IsActionEntry(e) ==
    /\ extract_player_name(e) # ""
    /\ ~IsHandStart(e)
    /\ ~IsSnapshot(e)
    /\ \A m \in {"Flop:", "Turn:", "River:"} : ~Contains(e, m)

\* The actions of a hand with phase ph, in their order.
ActionsOfPhase(hand, ph) ==
    LET InPhase(a) == a.phase = ph
    IN  SelectSeq(hand.actions, InPhase)

\* C16, the buckets: in every hand, finalized or open, the bucket of a
\* phase holds exactly the hand's actions whose phase field names it.
C16_OneBucket ==
    /\ \A h \in 1..Len(hands) : \A ph \in Phases :
          hands[h].phases[ph] = ActionsOfPhase(hands[h], ph)
    /\ current_hand # << >> =>
          \A ph \in Phases :
              current_hand[1].phases[ph] = ActionsOfPhase(current_hand[1], ph)

\* C16, the step: an action is recorded with the phase of the last marker
\* read since the start of its hand, preflop without one, and the phase
\* the loop is in is that phase.
C16_PhaseStep ==
    (pc = "parse_hands" /\ idx <= Len(df) /\ current_hand # << >>
        /\ IsActionEntry(Entry))
    => /\ current_phase = PhaseAt(Sorted, idx)
       /\ LET acts == IF IsHandEnd(Entry) THEN hands'[Len(hands')].actions
                       ELSE current_hand'[1].actions
          IN  /\ Len(acts) = Len(current_hand[1].actions) + 1
              /\ acts[Len(acts)].phase = PhaseAt(Sorted, idx)
              /\ acts[Len(acts)].action = Entry

\* C16: every action of a hand lies in exactly one phase bucket, the one
\* its phase field names, and that phase is the one of the most recent
\* phase marker since the hand's start, preflop if there is none; the
\* phase of an earlier hand never carries over.
C16_PhaseOfOwnHand == [](C16_OneBucket) /\ [][C16_PhaseStep]_vars

\* C16 happens: the first hand reached the river, had a call and ended;
\* the call of the second hand is a preflop action and counts as VPIP.
C16_Witness ==
    /\ pc = "done"
    /\ Entries(Sorted) = << EStart, ERiver, ECalls("A", "4.00"), EEnd,
                           EStart, ECalls("A", "4.00") >>
    /\ Len(hands) = 2
    /\ hands[1].actions[1].phase = "river"
    /\ hands[2].actions[1].phase = "preflop"
    /\ hands[2].phases["preflop"] = hands[2].actions
    /\ hands[2].phases["river"] = << >>
    /\ Stat(player_stats, "A").vpip_hands = 1

----------------------------------------------------------------------------
\* The phases in which the player put money in the pot, in the order of the
\* keys, each with its amount.
RECURSIVE PhasesWithMoney(_, _)
PhasesWithMoney(stats, n) ==
    IF n > Len(PhaseOrder) THEN << >>
    ELSE (IF FLess(FZero, stats.betting_phase_amounts[PhaseOrder[n]])
          THEN << [label |-> PhaseOrder[n],
                   count |-> stats.betting_phase_amounts[PhaseOrder[n]]] >>
          ELSE << >>) \o PhasesWithMoney(stats, n + 1)

\* C18: the top-2 betting phases of every player of the report are the
\* phases with the largest amounts in descending order, and ("None", 0.0)
\* fills the places of a player who put money in the pot in fewer than two
\* phases: twice for a player who never bet, as second entry for a player
\* who bet in one phase only.
C18_PadsWithNone ==
    pc = "done" =>
        \A p \in DOMAIN player_stats :
            get_top_betting_phases(player_stats[p], 2) =
                TopNAmount(PhasesWithMoney(player_stats[p], 1), 2,
                           [label |-> "None", count |-> FZero])

----------------------------------------------------------------------------
\* sum plus the amounts above 0 of the actions n, n + 1, ... of actions that
\* are of player p, are observed in a phase of phs and do not hold every
\* text of left, added one after the other as floats.
RECURSIVE PutInFrom(_, _, _, _, _, _)
PutInFrom(sum, actions, n, p, phs, left) ==
    IF n > Len(actions) THEN sum
    ELSE PutInFrom(IF /\ actions[n].player = p
                      /\ actions[n].phase \in phs
                      /\ FLess(FZero, actions[n].amount)
                      /\ \E w \in left : ~IsInfix(w, actions[n].action)
                   THEN FAdd(sum, actions[n].amount) ELSE sum,
                   actions, n + 1, p, phs, left)

\* The same over the hands n, n + 1, ... of hs.
RECURSIVE PutInOfHands(_, _, _, _, _, _)
PutInOfHands(sum, hs, n, p, phs, left) ==
    IF n > Len(hs) THEN sum
    ELSE PutInOfHands(PutInFrom(sum, hs[n].actions, 1, p, phs, left),
                      hs, n + 1, p, phs, left)

\* total_put_in_pot and the per-phase amounts of every player are the float
\* sums of the amounts of the player's actions of the finalized hands, those
\* left out that hold every text of left.
PutInIsSum(left) ==
    pc = "done" =>
        \A p \in Names :
            /\ Stat(player_stats, p).total_put_in_pot
                   = PutInOfHands(FZero, hands, 1, p, Phases, left)
            /\ \A ph \in Phases :
                   Stat(player_stats, p).betting_phase_amounts[ph]
                       = PutInOfHands(FZero, hands, 1, p, {ph}, left)

\* The four per-phase amounts of the statistics, added as floats in some
\* order, give total_put_in_pot.
BucketsAddUp(stats) ==
    \E f \in [1..4 -> Phases] :
        /\ \A ph \in Phases : \E i \in 1..4 : f[i] = ph
        /\ stats.total_put_in_pot =
               FAdd(FAdd(FAdd(stats.betting_phase_amounts[f[1]],
                              stats.betting_phase_amounts[f[2]]),
                         stats.betting_phase_amounts[f[3]]),
                    stats.betting_phase_amounts[f[4]])

\* C19 as stated: total_put_in_pot is the sum of the amounts above 0 of the
\* player's actions that are no pot collections (entries with `collected`
\* and `from pot`, the ones recorded as wins), and the four per-phase
\* amounts always sum to total_put_in_pot.
C19_AsStated ==
    /\ PutInIsSum({"collected", "from pot"})
    /\ \A p \in Names : BucketsAddUp(Stat(player_stats, p))

\* C19, amended, the totals: after aggregation total_put_in_pot of a player
\* is the float sum of the amounts of the player's actions of the finalized
\* hands whose text does not hold `collected`, forced posts included, and
\* each per-phase amount is the float sum over the actions observed in that
\* phase.
C19_Totals == PutInIsSum({"collected"})

\* C19, amended, the buckets: the four per-phase amounts of a player sum to
\* the player's total_put_in_pot when each amount is read to the cent, as
\* the report gives money (the total and the per-phase amounts add the same
\* floats in another grouping, which can differ in the last bit of the
\* float).
C19_BucketsSum ==
    \A p \in Names :
        Cents(Stat(player_stats, p).total_put_in_pot) =
            Cents(Stat(player_stats, p).betting_phase_amounts["preflop"])
              + Cents(Stat(player_stats, p).betting_phase_amounts["flop"])
              + Cents(Stat(player_stats, p).betting_phase_amounts["turn"])
              + Cents(Stat(player_stats, p).betting_phase_amounts["river"])

\* C19, amended: total_put_in_pot of a player is the float sum of the
\* amounts above 0 of the player's actions in the finalized hands whose text
\* does not hold `collected`; forced blinds are included, collected amounts
\* never, and every amount is in exactly one per-phase bucket, so the four
\* buckets sum to the total to the cent, not always as floats.
C19_PutInPot == C19_Totals /\ C19_BucketsSum

\* C19 happens: B posted a big blind of 0.10 before the flop, bet 0.20 and
\* 0.30 on the flop and collected 0.90; B has put in 0.60, 0.10 of it
\* preflop and 0.50 on the flop, and won 0.90.  The total is the float
\* (0.10 + 0.20) + 0.30, which is not the float 0.10 + 0.50 of the two
\* per-phase amounts.
C19_Witness ==
    /\ pc = "done"
    /\ Entries(Sorted) = FloatBuckets
    /\ Len(hands) = 1
    /\ Stat(player_stats, "B").total_put_in_pot
          = FAdd(FAdd(FloatOfText("0.10"), FloatOfText("0.20")),
                 FloatOfText("0.30"))
    /\ Stat(player_stats, "B").betting_phase_amounts["preflop"]
          = FloatOfText("0.10")
    /\ Stat(player_stats, "B").betting_phase_amounts["flop"]
          = FloatOfText("0.50")
    /\ Stat(player_stats, "B").total_put_in_pot
          # FAdd(Stat(player_stats, "B").betting_phase_amounts["preflop"],
                 Stat(player_stats, "B").betting_phase_amounts["flop"])
    /\ Cents(Stat(player_stats, "B").total_put_in_pot) = 60
    /\ Cents(Stat(player_stats, "B").total_winnings) = 90

----------------------------------------------------------------------------
\* The amount of a cash-out entry.
CashOutAmount(e) == HundredthsOf(Search(e, CashOutPattern).groups[2])

\* The rows of rows[1..n] (in reading order) that are cash-outs of p.
CashOutsOf(rows, n, p) == {i \in 1..n : IsCashOutOf(rows[i].entry, p)}

\* The rows of rows[1..n] (in reading order) that are snapshot lines with a
\* stack for p.
SnapshotsOf(rows, n, p) ==
    {i \in 1..n : LedgerSnapshot(rows[i].entry)
                     /\ StackPositions(rows[i].entry, p) # {}}

\* C21, the step: reading a cash-out of a player adds its amount to the
\* player's cash_outs and changes final_stack of no player.
C21_CashOutStep ==
    (/\ pc = "parse_buy_ins_and_stacks"
     /\ idx <= Len(df)
     /\ \E q \in Names : IsCashOutOf(Entry, q))
    => \A p \in Names :
          /\ Stat(player_stats', p).final_stack
                = Stat(player_stats, p).final_stack
          /\ Cents(Stat(player_stats', p).cash_outs)
                = Cents(Stat(player_stats, p).cash_outs)
                    + (IF IsCashOutOf(Entry, p) THEN CashOutAmount(Entry)
                       ELSE 0)

\* C21, the run: when a cash-out of p is read after a snapshot line that
\* named p, final_stack of p is, from then on, still the stack of the last
\* snapshot line read that named p.
C21_StaleStack ==
    (pc = "parse_buy_ins_and_stacks" /\ idx <= Len(df) + 1) =>
        \A p \in Names :
            LET snaps == SnapshotsOf(Sorted, idx - 1, p)
                outs  == CashOutsOf(Sorted, idx - 1, p)
            IN  (snaps # {} /\ outs # {}) =>
                    Cents(Stat(player_stats, p).final_stack)
                        = StackOf(Sorted[CHOOSE i \in snaps :
                                            \A j \in snaps : j <= i].entry, p)

\* C21, the report: for a player named in a snapshot line who cashed out,
\* actual_profit holds both the stack of that last snapshot line and the
\* amounts cashed out.
C21_BothInProfit ==
    pc = "done" =>
        \A p \in DOMAIN player_stats :
            LET n     == Len(df)
                snaps == SnapshotsOf(Sorted, n, p)
                outs  == CashOutsOf(Sorted, n, p)
                rep   == generate_report(player_stats)[p]
            IN  (snaps # {} /\ outs # {}) =>
                    /\ rep.final_stack
                          = StackOf(Sorted[CHOOSE i \in snaps :
                                              \A j \in snaps : j <= i].entry, p)
                    /\ rep.cash_outs = CashOutTotal(Sorted, n, p)
                    /\ rep.actual_profit
                          = rep.final_stack + rep.cash_outs
                              - BuyInTotal(Sorted, n, p)
                              - IncreaseTotal(Sorted, n, p)

\* C21: a cash-out entry never changes final_stack of any player; after a
\* player named in a snapshot line quits, final_stack still holds the stack
\* of the last snapshot line that named the player, and actual_profit adds
\* both that stack and the amount cashed out.
C21_CashOutKeepsStack ==
    /\ [][C21_CashOutStep]_vars
    /\ [](C21_StaleStack)
    /\ [](C21_BothInProfit)

\* C21 happens: A bought in for 100, a snapshot line gave A 150, then A quit
\* with 50.00; final_stack is still 150 and the profit is 150 + 50 - 100.
C21_Witness ==
    /\ pc = "done"
    /\ Entries(Sorted)
          = << EBuyIn("A", "100"), ESnapA150, EQuits("A", "50.00") >>
    /\ player_stats["A"].final_stack = FloatOfInt(150)
    /\ player_stats["A"].cash_outs = FloatOfInt(50)
    /\ generate_report(player_stats)["A"].actual_profit = 10000

----------------------------------------------------------------------------
\* The sum of the counts of a hand_types_won mapping, from item n on.
RECURSIVE SumCounts(_, _)
SumCounts(items, n) ==
    IF n > Len(items) THEN 0 ELSE items[n].count + SumCounts(items, n + 1)

\* rows[i] (rows in reading order) is a pot collection with an actor prefix.
IsActorCollection(rows, i) ==
    IsCollection(rows[i].entry) /\ extract_player_name(rows[i].entry) # ""

\* A hand is open when rows[i] is read: a start line came before it and no
\* end line came between the last start line and rows[i].
HandOpenAt(rows, i) ==
    \E j \in 1..(i - 1) :
        /\ IsHandStart(rows[j].entry)
        /\ \A k \in (j + 1)..(i - 1) :
              ~IsHandStart(rows[k].entry) /\ ~IsHandEnd(rows[k].entry)

\* The hand open at rows[i] is finalized later: no start line comes after
\* rows[i] before an end line does (an end line, or the end of the log,
\* saves the hand; a start line drops it).
FinalizedAfter(rows, i) ==
    ~ \E k \in (i + 1)..Len(rows) :
          /\ IsHandStart(rows[k].entry)
          /\ \A m \in i..(k - 1) : ~IsHandEnd(rows[m].entry)

\* The winner records the claim expects of rows[n], rows[n + 1], ...: one for
\* every pot collection with an actor prefix read with a hand open that is
\* finalized later, in reading order.
RECURSIVE ExpectedWinners(_, _)
ExpectedWinners(rows, n) ==
    IF n > Len(rows) THEN << >>
    ELSE (IF /\ IsActorCollection(rows, n)
             /\ HandOpenAt(rows, n)
             /\ FinalizedAfter(rows, n)
          THEN << WinnerInfo(rows[n].entry) >>
          ELSE << >>) \o ExpectedWinners(rows, n + 1)

\* The winner records of ws that name p.
RecordsOf(ws, p) == {i \in 1..Len(ws) : ws[i].player = p}

\* C22, in every state: wins of every player is the sum of the counts of the
\* player's hand_types_won.
C22_WinsSumCounts ==
    \A p \in Names :
        Stat(player_stats, p).wins
            = SumCounts(Stat(player_stats, p).hand_types_won, 1)

\* C22, the records: the winner records of the finalized hands are, one for
\* one, the pot collections with an actor prefix that were read while a hand
\* that was finalized later was open.
C22_RecordPerCollection ==
    pc \in {"calculate_stats", "done"} =>
        WinnersFrom(hands, 1) = ExpectedWinners(Sorted, 1)

\* C22, after aggregation: wins of every player is the number of winner
\* records of the finalized hands that name the player.
C22_WinsCountRecords ==
    pc = "done" =>
        \A p \in Names :
            /\ Stat(player_stats, p).wins
                  = Cardinality(RecordsOf(WinnersFrom(hands, 1), p))
            /\ \A i \in 1..Len(Stat(player_stats, p).hand_types_won) :
                  LET it == Stat(player_stats, p).hand_types_won[i]
                  IN  it.count
                        = Cardinality(WinsAt(WinnersFrom(hands, 1), p, it.label))

\* C22: after aggregation over any entry sequence, for every player wins
\* equals the sum of the counts in hand_types_won and equals the number of
\* winner records naming the player in the finalized hands; a winner record
\* exists exactly for each pot collection with an actor prefix that was read
\* while a hand that was finalized later was open.
C22_WinsMatchRecords ==
    C22_WinsSumCounts /\ C22_RecordPerCollection /\ C22_WinsCountRecords

\* C22 happens: B collected with a Flush before any hand was started, then
\* twice with Two Pair in a hand that the end of the log finalized; the hand
\* has two winner records, B has two wins under the one label Two Pair.
C22_Witness ==
    /\ pc = "done"
    /\ Entries(Sorted)
          = << ECollectedWith("B", "9.00", PhraseOf(4, FALSE, FALSE)),
               EStart, ECollected("B", "9.00"),
               ECollected("B", "9.00") >>
    /\ Len(hands) = 1
    /\ Len(hands[1].winners) = 2
    /\ player_stats["B"].wins = 2
    /\ player_stats["B"].hand_types_won = << [label |-> "Two Pair", count |-> 2] >>

====
